---------------------------- MODULE Spec2Model ----------------------------
(***************************************************************************)
(* Trial ledger (storage/store.py, storage/models.py) and the per-trial    *)
(* objective of the optimizers (optimizers/minio, optimizers/redis,        *)
(* optuna/minio-optimizer).                                                *)
(*                                                                         *)
(* A Trial is a record with the fields the ledger logic reads:             *)
(*   id, trial   integers or None                                          *)
(*   service     the partition key                                         *)
(*   cloud, cpu_per_node, ram_per_node                                     *)
(*               the fields Trial.get_config_key() projects; the other     *)
(*               config fields of the key are held fixed                   *)
(*   metric      the service's primary metric (ops_per_sec, total_mib_s),  *)
(*               wherever the revision keeps it (top level or `metrics`)   *)
(*   error       error message or NoError                                  *)
(*   system_baseline, timings                                              *)
(*               1 when the record carries the block, None when not        *)
(* The backing file holds JSON items: functions from the field names that  *)
(* were written to their values (model_dump(exclude_none=True)).           *)
(***************************************************************************)
EXTENDS Integers, Sequences, FiniteSets, TLC

VARIABLES
    file,       \* backing JSON file: [exists, data]
    cache,      \* TrialStore._trials of each store: [loaded, trials]
    lastOp,     \* the last store operation and what it returned
    appended,   \* history: appends made through each store since the file was last deleted
    adds,       \* history: number of appends made so far
    opt,        \* the optimizer that runs: "minio", "redis" or "legacy"
    results,    \* results.json of the legacy optimizer: [exists, data]
    pc,         \* position of the objective within the current trial
    cur,        \* locals of the objective of the current trial
    attempt,    \* loop variable of the apply loop of deploy_minio
    calls,      \* external calls issued by the current trial, in order
    study,      \* the trials of the optuna study, in order
    ran,        \* number of objective calls started so far
    restarts,   \* number of times main() was started again
    backend,    \* how the provisioning backend answers tf.apply in this run
    tornDown,   \* history: this run destroyed a deployment it had benchmarked
    exit,       \* how main() ended: [cause, no_destroy, destroy_all]
    replayed,   \* what the last load_historical_trials did: [added, loaded, rejected]
    scored,     \* the last get_metric_value call: [fn, result, metric, value]
    keyed,      \* the last config_to_key call: [fn, config, infra, trino_config, key]
    io,         \* a save in progress and what a concurrent reader got from its load
    called,     \* the last call of a pricing function: [fn, args, ret]
    dep,        \* the cleanup and the deploy of one trial, and what the deploy returned
    wr,         \* two processes appending through stores of their own on one file
    trino       \* a run of the trino_iceberg optimizer in full mode

storeVars == <<file, cache, lastOp, appended, adds>>
storeHist == <<cache, lastOp, appended, adds>>
runVars == <<opt, results, pc, cur, attempt, calls, study, ran, restarts, backend,
             tornDown, exit, replayed>>
auxVars == <<io, called, dep, wr, trino>>
pureVars == <<scored, keyed, io, called, dep, wr, trino>>
trialVars == <<opt, results, pc, cur, attempt, calls, study, ran, restarts, backend,
               tornDown, exit, replayed, scored, keyed, io, called, dep, wr, trino>>
vars == <<file, cache, lastOp, appended, adds,
          opt, results, pc, cur, attempt, calls, study, ran, restarts, backend,
          tornDown, exit, replayed, scored, keyed, io, called, dep, wr, trino>>

----------------------------------------------------------------------------
(* Bounds *)

MaxAdds == 2

MaxTrials == 3

MaxRestarts == 1

MaxLedger == 3
MaxTrinoTrials == 4

----------------------------------------------------------------------------
(* Values *)

None == -1
NoError == "None"

ServiceType == {"meilisearch", "redis", "postgres", "minio"}

\* One store per service, all opened on the same backing file.
Stores == {"redis", "minio"}

ServiceOf(s) == s

TrialFields == {"id", "trial", "service", "cloud", "cpu_per_node", "ram_per_node",
                "metric", "error", "system_baseline", "timings"}

StrFields == {"service", "cloud", "error"}

FieldDefault(f) == IF f \in StrFields THEN NoError ELSE None

NoFile == [exists |-> FALSE, data |-> <<>>]

NotLoaded == [loaded |-> FALSE, trials |-> <<>>]

Loaded(ts) == [loaded |-> TRUE, trials |-> ts]

Max2(a, b) == IF a >= b THEN a ELSE b

Or0(x) == IF x = None THEN 0 ELSE x

Last(q) == q[Len(q)]

IsSuffix(s, t) ==
    /\ Len(s) <= Len(t)
    /\ \A i \in 1..Len(s) : s[i] = t[Len(t) - Len(s) + i]

----------------------------------------------------------------------------
(* storage/models.py *)

IsSuccessful(t) ==
    IF t.error # NoError THEN FALSE ELSE Or0(t.metric) > 0

\* Trial.is_successful of optuna/storage/models.py, whose Trial keeps the
\* metrics in a block `metrics` that is None when nothing was measured
NestedIsSuccessful(t) == t.error = NoError /\ t.metric # None

GetPrimaryMetric(t) == Or0(t.metric)

GetConfigKey(t) ==
    [cloud |-> t.cloud, cpu_per_node |-> t.cpu_per_node, ram_per_node |-> t.ram_per_node]

\* Trial.model_validate: service and cloud are required, service is one of
\* ServiceType, numeric fields are >= 0; absent fields take their default.
ValidItem(item) ==
    /\ "service" \in DOMAIN item
    /\ item["service"] \in ServiceType
    /\ "cloud" \in DOMAIN item
    /\ \A f \in (DOMAIN item) \cap {"metric"} : item[f] >= 0

ModelValidate(item) ==
    [f \in TrialFields |-> IF f \in DOMAIN item THEN item[f] ELSE FieldDefault(f)]

\* Trial.model_dump(mode="json", exclude_none=True, exclude_defaults=True)
ModelDump(t) ==
    [f \in {g \in TrialFields : t[g] # FieldDefault(g)} |-> t[f]]

----------------------------------------------------------------------------
(* storage/store.py: pure parts *)

ParseTrial(item, svc) ==
    LET d == IF "service" \in DOMAIN item THEN item ELSE ("service" :> svc) @@ item
    IN  IF ValidItem(d) THEN <<ModelValidate(d)>> ELSE <<>>

RECURSIVE LoadItemsUntilInvalid(_, _)
LoadItemsUntilInvalid(data, svc) ==
    IF data = <<>> THEN <<>>
    ELSE LET p == ParseTrial(Head(data), svc)
         IN  IF p = <<>> THEN <<>>
             ELSE (IF p[1].service = svc THEN p ELSE <<>>)
                     \o LoadItemsUntilInvalid(Tail(data), svc)

RECURSIVE LoadItems(_, _)
LoadItems(data, svc) ==
    IF data = <<>> THEN <<>>
    ELSE LET p == ParseTrial(Head(data), svc)
         IN  (IF p # <<>> /\ p[1].service = svc THEN p ELSE <<>>)
                \o LoadItems(Tail(data), svc)

Load(f, svc) == IF ~f.exists THEN <<>> ELSE LoadItems(f.data, svc)

RECURSIVE LoadAllItems(_)
LoadAllItems(data) ==
    IF data = <<>> THEN <<>>
    ELSE (IF ValidItem(Head(data)) THEN <<ModelValidate(Head(data))>> ELSE <<>>)
            \o LoadAllItems(Tail(data))

LoadAll(f) == IF ~f.exists THEN <<>> ELSE LoadAllItems(f.data)

DumpAll(ts) == [i \in 1..Len(ts) |-> ModelDump(ts[i])]

SaveMerged(f, svc, trials) ==
    LET all_trials == LoadAll(f)
        fresh == SelectSeq(trials, LAMBDA t : \A i \in 1..Len(all_trials) : all_trials[i] # t)
    IN  [exists |-> TRUE, data |-> DumpAll(all_trials \o fresh)]

SaveOnlyMine(f, svc, trials) ==
    [exists |-> TRUE, data |-> DumpAll(trials)]

SaveNothing(f, svc, trials) == f

SaveLastOnly(f, svc, trials) ==
    LET other_trials == SelectSeq(LoadAll(f), LAMBDA t : t.service # svc)
    IN  [exists |-> TRUE,
         data |-> DumpAll(other_trials \o SubSeq(trials, Len(trials), Len(trials)))]

Save(f, svc, trials) ==
    LET all_trials == LoadAll(f)
        other_trials == SelectSeq(all_trials, LAMBDA t : t.service # svc)
        combined == other_trials \o trials
    IN  [exists |-> TRUE, data |-> DumpAll(combined)]

RECURSIVE MaxOver(_, _)
MaxOver(trials, fld) ==
    IF trials = <<>> THEN 0
    ELSE Max2(Or0(Head(trials)[fld]), MaxOver(Tail(trials), fld))

NextIdOfIdsOnly(trials) ==
    IF trials = <<>> THEN 1 ELSE MaxOver(trials, "id") + 1

NextIdStuck(trials) ==
    IF trials = <<>> THEN 1 ELSE Max2(MaxOver(trials, "id"), MaxOver(trials, "trial"))

NextId(trials) ==
    IF trials = <<>> THEN 1
    ELSE Max2(MaxOver(trials, "id"), MaxOver(trials, "trial")) + 1

RECURSIVE FindAnyFrom(_, _, _)
FindAnyFrom(trials, target, i) ==
    IF i > Len(trials) THEN <<>>
    ELSE IF GetConfigKey(trials[i]) = target THEN <<trials[i]>>
    ELSE FindAnyFrom(trials, target, i + 1)

RECURSIVE FindLastFrom(_, _, _)
FindLastFrom(trials, target, i) ==
    LET j == Len(trials) + 1 - i
    IN  IF i > Len(trials) THEN <<>>
        ELSE IF ~IsSuccessful(trials[j]) THEN FindLastFrom(trials, target, i + 1)
        ELSE IF GetConfigKey(trials[j]) = target THEN <<trials[j]>>
        ELSE FindLastFrom(trials, target, i + 1)

\* the loop of find_by_config_key, from position i
RECURSIVE FindFrom(_, _, _)
FindFrom(trials, target, i) ==
    IF i > Len(trials) THEN <<>>
    ELSE IF ~IsSuccessful(trials[i]) THEN FindFrom(trials, target, i + 1)
    ELSE IF GetConfigKey(trials[i]) = target THEN <<trials[i]>>
    ELSE FindFrom(trials, target, i + 1)

RECURSIVE GetByIdFrom(_, _, _)
GetByIdFrom(trials, k, i) ==
    IF i > Len(trials) THEN <<>>
    ELSE IF trials[i].id = k \/ trials[i].trial = k THEN <<trials[i]>>
    ELSE GetByIdFrom(trials, k, i + 1)

\* the `trials` property: the cached list, loaded from disk on first use
TrialsOf(s) ==
    IF cache[s].loaded THEN cache[s].trials ELSE Load(file, ServiceOf(s))

Op(name, s, key, arg, res, n) ==
    [op |-> name, store |-> s, key |-> key, arg |-> arg, res |-> res, n |-> n]

----------------------------------------------------------------------------
(* Inputs of the store operations *)

Key(c, cpu, ram) == [cloud |-> c, cpu_per_node |-> cpu, ram_per_node |-> ram]

Keys == {Key("selectel", 4, 8), Key("selectel", 8, 8), Key("timeweb", 4, 8)}

\* the keys of appended records; the third key of Keys is only ever queried
AppendKeys == {Key("selectel", 4, 8), Key("timeweb", 4, 8)}

\* (primary metric, error) of an appended record
Outcomes == {<<1, NoError>>, <<2, NoError>>, <<0, NoError>>, <<None, NoError>>,
             <<0, "Benchmark failed">>}

TrialNumbers == {None, 2}

PresetIds == {None, 1}

\* a dict as the optimizers' save_result builds it: keys with value None are
\* the same as absent keys to model_validate
MkData(tr, k, m, e, b, tm) ==
    LET full == [trial |-> tr, cloud |-> k.cloud, cpu_per_node |-> k.cpu_per_node,
                 ram_per_node |-> k.ram_per_node, metric |-> m, error |-> e,
                 system_baseline |-> b, timings |-> tm]
    IN  [f \in {g \in DOMAIN full : full[g] # FieldDefault(g)} |-> full[f]]

DataDicts(s) ==
    IF s = "redis"
    THEN {MkData(None, k, o[1], o[2], None, None) : k \in AppendKeys, o \in Outcomes}
            \cup {MkData(tr, Key("selectel", 4, 8), 1, NoError, None, None) : tr \in TrialNumbers}
    ELSE {MkData(None, Key("selectel", 4, 8), 1, NoError, None, None),
          MkData(None, Key("selectel", 4, 8), 0, "Deploy failed", None, None)}

TrialObjects(s) ==
    IF s # "redis" THEN {} ELSE
    {[id |-> i, trial |-> None, service |-> ServiceOf(s), cloud |-> "selectel",
      cpu_per_node |-> 4, ram_per_node |-> 8, metric |-> 1, error |-> NoError,
      system_baseline |-> None, timings |-> None] : i \in PresetIds}

QueryIds == {1, 2}

----------------------------------------------------------------------------
(* storage/store.py: operations *)

\* common tail of add and add_dict on a store whose listing is `trials`:
\* assign the id, append, save
AppendTo(f, trials, svc, t0) ==
    LET t == IF t0.id = None THEN [t0 EXCEPT !.id = NextId(trials)] ELSE t0
        now == Append(trials, t)
    IN  [file |-> Save(f, svc, now), trials |-> now, trial |-> t]

Append1(s, t0, name) ==
    LET a == AppendTo(file, TrialsOf(s), ServiceOf(s), t0)
    IN  /\ cache' = [cache EXCEPT ![s] = Loaded(a.trials)]
        /\ file' = a.file
        /\ lastOp' = Op(name, s, <<>>, 0, <<a.trial>>, 0)
        /\ appended' = [appended EXCEPT ![s] = Append(@, [trial |-> a.trial, idGiven |-> t0.id # None])]
        /\ adds' = adds + 1
        /\ UNCHANGED trialVars

Add(s, trial) ==
    /\ adds < MaxAdds
    /\ Append1(s, trial, "add")

AddDict(s, data) ==
    LET d == ("service" :> ServiceOf(s)) @@ data
    IN  /\ adds < MaxAdds
        /\ ValidItem(d)
        /\ Append1(s, ModelValidate(d), "add_dict")

FindByConfigKey(s, key) ==
    /\ cache' = [cache EXCEPT ![s] = Loaded(TrialsOf(s))]
    /\ lastOp' = Op("find_by_config_key", s, <<key>>, 0, FindFrom(TrialsOf(s), key, 1), 0)
    /\ UNCHANGED <<file, appended, adds>>
    /\ UNCHANGED trialVars

GetById(s, k) ==
    /\ cache' = [cache EXCEPT ![s] = Loaded(TrialsOf(s))]
    /\ lastOp' = Op("get_by_id", s, <<>>, k, GetByIdFrom(TrialsOf(s), k, 1), 0)
    /\ UNCHANGED <<file, appended, adds>>
    /\ UNCHANGED trialVars

Count(s) ==
    /\ cache' = [cache EXCEPT ![s] = Loaded(TrialsOf(s))]
    /\ lastOp' = Op("count", s, <<>>, 0, <<>>, Len(TrialsOf(s)))
    /\ UNCHANGED <<file, appended, adds>>
    /\ UNCHANGED trialVars

ClearTruncates(s) ==
    /\ cache' = [cache EXCEPT ![s] = Loaded(<<>>)]
    /\ file' = [exists |-> TRUE, data |-> <<>>]
    /\ lastOp' = Op("clear", s, <<>>, 0, <<>>, Len(file.data))
    /\ appended' = [x \in Stores |-> <<>>]
    /\ UNCHANGED adds
    /\ UNCHANGED trialVars

Clear(s) ==
    \* lastOp.n keeps the number of items the file held, as history
    /\ cache' = [cache EXCEPT ![s] = Loaded(<<>>)]
    /\ file' = NoFile
    /\ lastOp' = Op("clear", s, <<>>, 0, <<>>, Len(file.data))
    /\ appended' = [x \in Stores |-> <<>>]
    /\ UNCHANGED adds
    /\ UNCHANGED trialVars

ReloadKeepsCache(s) ==
    /\ cache' = cache
    /\ lastOp' = Op("reload", s, <<>>, 0, cache[s].trials, 0)
    /\ UNCHANGED <<file, appended, adds>>
    /\ UNCHANGED trialVars

Reload(s) ==
    \* lastOp.res keeps the listing that is discarded, as history
    /\ cache' = [cache EXCEPT ![s] = NotLoaded]
    /\ lastOp' = Op("reload", s, <<>>, 0, cache[s].trials, 0)
    /\ UNCHANGED <<file, appended, adds>>
    /\ UNCHANGED trialVars

----------------------------------------------------------------------------
(* pricing.py, cloud_config.py: the search space *)

RunCloud == "selectel"

CpuSpace == {4, 8}

RamSpace == {4, 8}

GetMinRamForCpu(cloud, cpu) ==
    IF cloud = "selectel"
    THEN CASE cpu = 2 -> 2 [] cpu = 4 -> 4 [] cpu = 8 -> 8 [] cpu = 16 -> 32
           [] cpu = 32 -> 64 [] OTHER -> 0
    ELSE 0

KeepAllRam(cloud, cpu, ram_options) == ram_options

FilterValidRam(cloud, cpu, ram_options) ==
    LET min_ram == GetMinRamForCpu(cloud, cpu)
        valid == {r \in ram_options : r >= min_ram}
    IN  IF valid # {} THEN valid ELSE ram_options

\* the configurations the objective can be asked to evaluate
Configs ==
    UNION {{[cpu_per_node |-> c, ram_per_node |-> r] :
                r \in FilterValidRam(RunCloud, c, RamSpace)} : c \in CpuSpace}

----------------------------------------------------------------------------
(* optimizers/minio/optimizer.py, optimizers/redis/optimizer.py,           *)
(* optuna/minio-optimizer/optimizer.py: pure parts                         *)

MaxRetries == 3

ApplyOutcomes == {"ok", "stale", "conflict", "fatal"}

\* a backend that may answer anything, and one that answers every apply with
\* a transient resource conflict
Backends == {"any", "always_conflict"}

ApplyAnswers(b) == IF b = "always_conflict" THEN {"conflict"} ELSE ApplyOutcomes

\* whether `terraform init` succeeds when get_terraform() has to run it
InitAnswers(b) == IF b = "always_conflict" THEN {TRUE} ELSE BOOLEAN

\* what the benchmark command can produce: exit code, and an output that
\* either holds the total line or does not
BenchOutputs ==
    {[code |-> 1, text |-> "garbage", total |-> 0],
     [code |-> 0, text |-> "garbage", total |-> 0],
     [code |-> 0, text |-> "total", total |-> 0],
     [code |-> 0, text |-> "total", total |-> 1],
     [code |-> 0, text |-> "total", total |-> 2]}

BenchKind(out) ==
    IF out.code # 0 THEN "failed"
    ELSE IF out.text = "garbage" THEN "unparsed"
    ELSE IF out.total = 0 THEN "zero" ELSE "ok"

ConfigToKey(config, cloud) ==
    [cloud |-> cloud, cpu_per_node |-> config.cpu_per_node,
     ram_per_node |-> config.ram_per_node]

\* total_mib_s / ops_per_sec of the parsed output; 0 when no total is found
ParseOutput(out) == IF out.text = "total" THEN out.total ELSE 0

\* run_warp_benchmark / run_memtier_benchmark: None on a non-zero exit code
RunBenchmark(out) == IF out.code # 0 THEN <<>> ELSE <<ParseOutput(out)>>

\* get_metric_value of the primary (maximized) metric
GetMetricValue(r) == Or0(r.metric)

\* get_store().add_dict(data) on the store a call of get_store() creates
FreshAddDict(f, svc, data) ==
    LET d == ("service" :> svc) @@ data
    IN  AppendTo(f, Load(f, svc), svc, ModelValidate(d))

SaveResult(f, svc, number, key, metric, error, baseline, timings) ==
    FreshAddDict(f, svc, MkData(number, key, metric, error, baseline, timings))

NeverCached(f, config, cloud) == <<>>

FindCachedResultMinio(f, config, cloud) ==
    LET trial == FindFrom(Load(f, "minio"), ConfigToKey(config, cloud), 1)
    IN  IF trial = <<>> THEN <<>>
        ELSE IF trial[1].error # NoError THEN <<>>
        ELSE IF Or0(trial[1].metric) <= 0 THEN <<>>
        ELSE IF trial[1].system_baseline = None THEN <<>>
        ELSE IF trial[1].timings = None THEN <<>>
        ELSE trial

FindCachedResultRedis(f, config, cloud) ==
    LET trial == FindFrom(Load(f, "redis"), ConfigToKey(config, cloud), 1)
    IN  IF trial = <<>> THEN <<>>
        ELSE IF trial[1].error # NoError THEN <<>>
        ELSE IF Or0(trial[1].metric) <= 0 THEN <<>>
        ELSE trial

CpuAny(cpu) == TRUE

CpuAllowed(cpu) == cpu \in CpuSpace

NeverSeen(config_key, seen) == FALSE

AlreadySeen(config_key, seen) == config_key \in seen

\* create_trial / add_trial raise for the points the oracle rejects
OracleAccepts(r, cloud, rejected) == ConfigToKey(r, cloud) \notin rejected

StopAtReject(rest) == [added |-> <<>>, loaded |-> 0]

OnReject(rest) ==
    \* the except branch around create_trial / add_trial: print and continue
    rest

\* the loop of load_historical_trials over valid_results from position i on:
\* the records added to the study and the value of `loaded`
RECURSIVE ReplayFrom(_, _, _, _, _)
ReplayFrom(valid, cloud, i, seen, rejected) ==
    IF i > Len(valid) THEN [added |-> <<>>, loaded |-> 0]
    ELSE LET r == valid[i]
             config_key == ConfigToKey(r, cloud)
             rest == ReplayFrom(valid, cloud, i + 1, seen \cup {config_key}, rejected)
         IN  IF AlreadySeen(config_key, seen)
                 THEN ReplayFrom(valid, cloud, i + 1, seen, rejected)
             ELSE IF ~CpuAllowed(r.cpu_per_node) THEN rest
             ELSE IF r.ram_per_node \notin FilterValidRam(cloud, r.cpu_per_node, RamSpace)
                 THEN rest
             ELSE IF ~OracleAccepts(r, cloud, rejected) THEN OnReject(rest)
             ELSE [added |-> <<r>> \o rest.added, loaded |-> rest.loaded + 1]

LoadHistoricalTrials(f, svc, cloud, rejected) ==
    LET valid_results ==
            SelectSeq(Load(f, svc),
                      LAMBDA r : /\ r.cloud = cloud
                                 /\ r.error = NoError
                                 /\ Or0(r.metric) > 0
                                 /\ r.cpu_per_node \notin {None, 0})
    IN  ReplayFrom(valid_results, cloud, 1, {}, rejected)

(* optuna/minio-optimizer/optimizer.py keeps plain dicts in results.json *)

NoResults == [exists |-> FALSE, data |-> <<>>]

LoadResults(r) == IF r.exists THEN r.data ELSE <<>>

SaveResults(rs) == [exists |-> TRUE, data |-> rs]

LegacyDict(number, key, metric, error, baseline, timings) ==
    [trial |-> number, cloud |-> key.cloud, cpu_per_node |-> key.cpu_per_node,
     ram_per_node |-> key.ram_per_node, metric |-> metric, error |-> error,
     system_baseline |-> baseline, timings |-> timings]

LegacyGetMetricValue(r) == r.metric

RECURSIVE LegacyFindFrom(_, _, _)
LegacyFindFrom(rs, target_key, i) ==
    IF i > Len(rs) THEN <<>>
    ELSE IF ConfigToKey(rs[i], rs[i].cloud) = target_key
         THEN IF rs[i].error # NoError THEN <<>>
              ELSE IF rs[i].metric <= 0 THEN <<>>
              ELSE IF rs[i].system_baseline = None THEN <<>>
              ELSE IF rs[i].timings = None THEN <<>>
              ELSE <<rs[i]>>
    ELSE LegacyFindFrom(rs, target_key, i + 1)

LegacyFindCachedResult(r, config, cloud) ==
    LegacyFindFrom(LoadResults(r), ConfigToKey(config, cloud), 1)

LegacySaveResult(r, number, key, metric, error, baseline, timings) ==
    SaveResults(Append(LoadResults(r),
                       LegacyDict(number, key, metric, error, baseline, timings)))

----------------------------------------------------------------------------
(* objective(): one call per trial of the study, in steps *)

Svc == IF opt = "redis" THEN "redis" ELSE "minio"

NoCur == [key |-> Key("", 0, 0), number |-> 0, ready |-> FALSE, result |-> 0,
          bench |-> "na"]

\* a trial of the study: how it got there (replay, cached, run), its state
\* and value, and history of the run: the branch the objective took
\* (failure), what the benchmark produced (bench), the record it saved or
\* was built from (rec)
Entry(kind, state, value, key, failure, bench, rec) ==
    [kind |-> kind, state |-> state, value |-> value, key |-> key,
     failure |-> failure, bench |-> bench, rec |-> rec]

CachedResult(config) ==
    CASE opt = "minio" -> FindCachedResultMinio(file, config, RunCloud)
      [] opt = "redis" -> FindCachedResultRedis(file, config, RunCloud)
      [] OTHER -> LegacyFindCachedResult(results, config, RunCloud)

CachedValue(r) == IF opt = "legacy" THEN LegacyGetMetricValue(r) ELSE GetMetricValue(r)

\* the `if not success` / `if result is None` branches of objective():
\* what is saved and what the study gets
TrialFailed(error, baseline) ==
    CASE opt = "minio" ->
            LET a == SaveResult(file, "minio", cur.number, cur.key, 0, error, baseline, 1)
            IN  [file |-> a.file, results |-> results, state |-> "PRUNED",
                 value |-> None, rec |-> <<a.trial>>]
      [] opt = "redis" ->
            [file |-> file, results |-> results, state |-> "PRUNED",
             value |-> None, rec |-> <<>>]
      [] OTHER ->
            [file |-> file,
             results |-> LegacySaveResult(results, cur.number, cur.key, 0, error, baseline, 1),
             state |-> "COMPLETE", value |-> 0,
             rec |-> <<LegacyDict(cur.number, cur.key, 0, error, baseline, 1)>>]

\* the tail of objective(): save_result(result, ...) and return metric_value
TrialSucceeded(metric) ==
    CASE opt = "minio" ->
            LET a == SaveResult(file, "minio", cur.number, cur.key, metric, NoError, 1, 1)
            IN  [file |-> a.file, results |-> results, state |-> "COMPLETE",
                 value |-> GetMetricValue([metric |-> metric]), rec |-> <<a.trial>>]
      [] opt = "redis" ->
            LET a == SaveResult(file, "redis", cur.number, cur.key, metric, NoError, None, 1)
            IN  [file |-> a.file, results |-> results, state |-> "COMPLETE",
                 value |-> GetMetricValue([metric |-> metric]), rec |-> <<a.trial>>]
      [] OTHER ->
            [file |-> file,
             results |-> LegacySaveResult(results, cur.number, cur.key, metric, NoError, 1, 1),
             state |-> "COMPLETE", value |-> LegacyGetMetricValue([metric |-> metric]),
             rec |-> <<LegacyDict(cur.number, cur.key, metric, NoError, 1, 1)>>]

\* objective() returns or raises: the trial joins the study
Finish(o, failure, bench) ==
    /\ file' = o.file
    /\ results' = o.results
    /\ study' = Append(study, Entry("run", o.state, o.value, cur.key, failure, bench, o.rec))
    /\ pc' = "idle"
    /\ cur' = NoCur
    /\ attempt' = 0
    /\ calls' = <<>>

StartTrial(config) ==
    /\ pc = "idle"
    /\ ran < MaxTrials
    /\ ran' = ran + 1
    /\ LET cached == CachedResult(config)
           key == ConfigToKey(config, RunCloud)
       IN  IF cached # <<>>
           THEN /\ study' = Append(study, Entry("cached", "COMPLETE", CachedValue(cached[1]),
                                                key, "none", "na", cached))
                /\ UNCHANGED <<pc, cur>>
           ELSE /\ pc' = "cleanup"
                /\ cur' = [NoCur EXCEPT !.key = key, !.number = Len(study)]
                /\ UNCHANGED study
    /\ UNCHANGED <<file, results, opt, backend, pureVars, replayed, tornDown, exit, attempt, calls, restarts, storeHist>>

\* destroy_minio / destroy_redis before deploying; the result is discarded
\* get_terraform() raises RuntimeError when `terraform init` is needed and
\* fails; nothing in objective() or study.optimize() catches it
Cleanup(init_ok) ==
    /\ pc = "cleanup"
    /\ init_ok \in InitAnswers(backend)
    /\ IF init_ok
       THEN /\ calls' = Append(calls, "destroy")
            /\ pc' = "apply"
            /\ UNCHANGED <<cur, study>>
       ELSE /\ pc' = "raising"
            /\ study' = Append(study, Entry("aborted", "FAIL", None, cur.key, "none", "na", <<>>))
            /\ cur' = NoCur
            /\ calls' = <<>>
    /\ UNCHANGED <<file, results, opt, backend, pureVars, replayed, tornDown, exit, attempt, ran, restarts, storeHist>>

RetryOnceMore(o, out, att) ==
    o # "redis" /\ out \in {"stale", "conflict"} /\ att < MaxRetries

RetryWhateverFailed(o, out, att) ==
    o # "redis" /\ out # "ok" /\ att + 1 < MaxRetries

ShouldRetry(o, out, att) ==
    \* the `continue` branches of the apply loop: attempt att (from 0) answered
    \* out and another iteration follows
    o # "redis" /\ out \in {"stale", "conflict"} /\ att + 1 < MaxRetries

\* one tf.apply of deploy_minio / deploy_redis
Apply(out) ==
    /\ pc = "apply"
    /\ out \in ApplyAnswers(backend)
    /\ IF out = "ok"
       THEN /\ pc' = "ready"
            /\ calls' = Append(calls, "apply")
            /\ UNCHANGED <<file, results, cur, attempt, study>>
       ELSE IF ShouldRetry(opt, out, attempt)
       THEN /\ attempt' = attempt + 1
            /\ calls' = Append(calls, "apply")
            /\ UNCHANGED <<file, results, pc, cur, study>>
       ELSE Finish(TrialFailed("Deploy failed", None), "deploy", "na")
    /\ UNCHANGED <<opt, backend, pureVars, replayed, tornDown, exit, ran, restarts, storeHist>>

\* wait_for_minio_ready / wait_for_redis_ready: not being ready is a warning
AwaitReady(ready) ==
    /\ pc = "ready"
    /\ calls' = Append(calls, "wait_ready")
    /\ cur' = [cur EXCEPT !.ready = ready]
    /\ pc' = IF opt = "redis" THEN "benchmark" ELSE "baseline"
    /\ UNCHANGED <<file, results, opt, backend, pureVars, replayed, tornDown, exit, attempt, study, ran, restarts, storeHist>>

Baseline ==
    /\ pc = "baseline"
    /\ calls' = Append(calls, "baseline")
    /\ pc' = "benchmark"
    /\ UNCHANGED <<file, results, opt, backend, pureVars, replayed, tornDown, exit, cur, attempt, study, ran, restarts, storeHist>>

Benchmark(out) ==
    /\ pc = "benchmark"
    /\ LET result == RunBenchmark(out)
           failed == IF opt = "redis" THEN result = <<>> \/ result[1] = 0
                     ELSE result = <<>>
       IN  IF failed
           THEN Finish(TrialFailed("Benchmark failed", IF opt = "redis" THEN None ELSE 1),
                       "benchmark", BenchKind(out))
           ELSE IF opt = "redis"
           THEN Finish(TrialSucceeded(result[1]), "none", BenchKind(out))
           ELSE /\ pc' = "destroy"
                /\ cur' = [cur EXCEPT !.result = result[1], !.bench = BenchKind(out)]
                /\ calls' = Append(calls, "benchmark")
                /\ UNCHANGED <<file, results, attempt, study>>
    /\ UNCHANGED <<opt, backend, pureVars, replayed, tornDown, exit, ran, restarts, storeHist>>

\* destroy_minio after the benchmark, then the tail of objective()
Destroy ==
    /\ pc = "destroy"
    /\ Finish(TrialSucceeded(cur.result), "none", cur.bench)
    /\ tornDown' = TRUE
    /\ UNCHANGED <<opt, backend, pureVars, replayed, exit, ran, restarts, storeHist>>

NoExit == [cause |-> "running", no_destroy |-> FALSE, destroy_all |-> FALSE]

\* the end of main(): study.optimize() returned or an exception left it,
\* and the finally block runs.  args.no_destroy is read only there.
Exit(no_destroy) ==
    /\ pc \in {"idle", "raising"}
    /\ pc' = "exited"
    /\ exit' = [cause |-> IF pc = "idle" THEN "done" ELSE "exception",
                no_destroy |-> no_destroy,
                destroy_all |-> ~no_destroy]
    /\ UNCHANGED <<file, results, opt, backend, pureVars, replayed, tornDown, cur, attempt, calls, study,
                   ran, restarts, storeHist>>

\* main() is started again: the study is loaded from its database and
\* load_historical_trials adds the ledger's valid records to it
NotReplayed == [added |-> <<>>, loaded |-> 0, rejected |-> {}]

Restart(rejected) ==
    /\ pc \in {"idle", "exited"}
    /\ pc' = "idle"
    /\ tornDown' = FALSE
    /\ exit' = NoExit
    /\ restarts < MaxRestarts
    /\ restarts' = restarts + 1
    /\ LET h == LoadHistoricalTrials(file, Svc, RunCloud, rejected)
           hist == h.added
       IN  /\ study' = study \o
                [i \in 1..Len(hist) |->
                    Entry("replay", "COMPLETE", GetMetricValue(hist[i]),
                          ConfigToKey(hist[i], RunCloud), "none", "na", <<hist[i]>>)]
           /\ replayed' = [added |-> hist, loaded |-> h.loaded, rejected |-> rejected]
    /\ UNCHANGED <<file, results, opt, backend, pureVars, cur, attempt, calls, ran, storeHist>>

----------------------------------------------------------------------------
(* metrics.py, optuna/redis-optimizer: the scalar handed to the study *)

MaxValue == 4

\* float("inf"): above every value a benchmark reports
Inf == MaxValue + 1

MetricNames == {"ops_per_sec", "p99_latency_ms"}

\* REDIS_METRICS: the registered direction of each metric
Direction(metric) == IF metric = "p99_latency_ms" THEN "minimize" ELSE "maximize"

\* the metric sets of a result; None stands for an absent key
ResultDicts == [MetricNames -> {None} \cup 0..MaxValue]

\* result.get(key, default)
DictGet(result, key, default) == IF result[key] = None THEN default ELSE result[key]

\* the scalar of a minimize metric
MinimizeScalar(raw) == IF raw = 0 THEN Inf ELSE -raw

\* metrics.get_metric_value(result, metric, METRICS)
MetricsGetMetricValue(result, metric) ==
    LET raw == DictGet(result, metric, 0)
    IN  IF Direction(metric) = "minimize" THEN MinimizeScalar(raw) ELSE raw

LegacyNoNegation(result, metric) == DictGet(result, metric, 0)

LegacyRedisGetMetricValue(result, metric) ==
    \* get_metric_value(result, metric) of optuna/redis-optimizer
    IF metric = "p99_latency_ms"
    THEN -DictGet(result, "p99_latency_ms", Inf)
    ELSE DictGet(result, metric, 0)

NotScored == [fn |-> "none", result |-> [m \in MetricNames |-> None],
              metric |-> "ops_per_sec", value |-> 0]

GetMetricValueCall(result, metric) ==
    /\ scored' = [fn |-> "metrics", result |-> result, metric |-> metric,
                  value |-> MetricsGetMetricValue(result, metric)]
    /\ UNCHANGED <<storeVars, runVars, auxVars, keyed>>

LegacyGetMetricValueCall(result, metric) ==
    /\ scored' = [fn |-> "redis-optimizer", result |-> result, metric |-> metric,
                  value |-> LegacyRedisGetMetricValue(result, metric)]
    /\ UNCHANGED <<storeVars, runVars, auxVars, keyed>>

----------------------------------------------------------------------------
(* config_to_key of optimizers/redis and optimizers/trino_iceberg *)

\* A dict is the sequence of its <<key, value>> items in insertion order; a
\* value is an integer, a string or a dict.
JInt(n) == [t |-> "int", v |-> n]
JStr(str) == [t |-> "str", v |-> str]
JDict(items) == [t |-> "dict", v |-> items]

\* the keys that occur, in the order of Python's string comparison
KeyOrder ==
    <<"cloud", "compression", "cpu", "cpu_per_node", "disk_type", "infra", "io_threads",
      "maxmemory_policy", "mode", "persistence", "ram_gb", "ram_per_node",
      "task_concurrency", "trino">>

\* d[key]
GetItem(d, key) == d[CHOOSE i \in 1..Len(d) : d[i][1] = key][2]

InsertionOrder(items) == items

SortedItems(items) ==
    \* sort_keys=True: the items of a dict by ascending key
    LET ks == SelectSeq(KeyOrder, LAMBDA k : \E i \in 1..Len(items) : items[i][1] = k)
    IN  [i \in 1..Len(ks) |-> <<ks[i], GetItem(items, ks[i])>>]

\* json.dumps(x, sort_keys=True) with the default separators
RECURSIVE JsonDumps(_)
RECURSIVE JoinItems(_, _)
JsonDumps(x) ==
    CASE x.t = "int" -> ToString(x.v)
      [] x.t = "str" -> "\"" \o x.v \o "\""
      [] x.t = "dict" -> "{" \o JoinItems(SortedItems(x.v), 1) \o "}"

JoinItems(items, i) ==
    IF i > Len(items) THEN ""
    ELSE "\"" \o items[i][1] \o "\": " \o JsonDumps(items[i][2])
             \o (IF i < Len(items) THEN ", " ELSE "") \o JoinItems(items, i + 1)

RedisConfigToKey(config, cloud) ==
    JsonDumps(JDict(<<<<"cloud", JStr(cloud)>>,
                      <<"mode", GetItem(config, "mode")>>,
                      <<"cpu_per_node", GetItem(config, "cpu_per_node")>>,
                      <<"ram_per_node", GetItem(config, "ram_per_node")>>,
                      <<"maxmemory_policy", GetItem(config, "maxmemory_policy")>>,
                      <<"io_threads", GetItem(config, "io_threads")>>,
                      <<"persistence", GetItem(config, "persistence")>>>>))

TrinoConfigToKey(infra, trino_config, cloud) ==
    JsonDumps(JDict(<<<<"cloud", JStr(cloud)>>,
                      <<"infra", JDict(infra)>>,
                      <<"trino", JDict(trino_config)>>>>))

\* the dicts with the items of d, in every insertion order
Orders(d) == {[i \in 1..Len(d) |-> d[f[i]]] : f \in Permutations(1..Len(d))}

RedisConfigs ==
    UNION {Orders(<<<<"mode", JStr("single")>>,
                    <<"cpu_per_node", JInt(cpu)>>,
                    <<"ram_per_node", JInt(8)>>,
                    <<"maxmemory_policy", JStr("allkeys-lru")>>,
                    <<"io_threads", JInt(1)>>,
                    <<"persistence", JStr("none")>>>>) :
               cpu \in CpuSpace}

TrinoInfras ==
    UNION {Orders(<<<<"cpu", JInt(cpu)>>, <<"ram_gb", JInt(8)>>, <<"disk_type", JStr("fast")>>>>) :
               cpu \in {2, 4}}

TrinoConfigs ==
    UNION {Orders(<<<<"task_concurrency", JInt(tc)>>, <<"compression", JStr("zstd")>>>>) :
               tc \in {4, 8}}

NotKeyed == [fn |-> "none", config |-> <<>>, infra |-> <<>>, trino_config |-> <<>>, key |-> ""]

RedisConfigToKeyCall(config) ==
    /\ keyed.fn = "none"
    /\ keyed' = [fn |-> "redis", config |-> config, infra |-> <<>>, trino_config |-> <<>>,
                 key |-> RedisConfigToKey(config, RunCloud)]
    /\ UNCHANGED <<storeVars, runVars, auxVars, scored>>

TrinoConfigToKeyCall(infra, trino_config) ==
    /\ keyed.fn = "none"
    /\ keyed' = [fn |-> "trino", config |-> <<>>, infra |-> infra,
                 trino_config |-> trino_config,
                 key |-> TrinoConfigToKey(infra, trino_config, RunCloud)]
    /\ UNCHANGED <<storeVars, runVars, auxVars, scored>>

----------------------------------------------------------------------------
(* storage/store.py: _save and _load of two processes on one file *)

NoIo == [phase |-> "idle", store |-> "redis", before |-> NoFile, pending |-> <<>>,
         observed |-> [kind |-> "none", svc |-> "redis", trials |-> <<>>,
                       before |-> NoFile, after |-> NoFile]]

\* add_dict up to the open(path, "w") of _save: the record is validated,
\* gets its id and joins the listing, _load_all reads the file, and opening
\* the file for writing truncates it
BeginSave(s, data) ==
    LET d == ("service" :> ServiceOf(s)) @@ data
        t0 == ModelValidate(d)
        trials == TrialsOf(s)
        t == IF t0.id = None THEN [t0 EXCEPT !.id = NextId(trials)] ELSE t0
        now == Append(trials, t)
    IN  /\ io.phase = "idle"
        /\ adds < MaxAdds
        /\ ValidItem(d)
        /\ cache' = [cache EXCEPT ![s] = Loaded(now)]
        /\ io' = [io EXCEPT !.phase = "writing", !.store = s, !.before = file,
                            !.pending = Save(file, ServiceOf(s), now).data]
        /\ file' = [exists |-> TRUE, data |-> <<>>]
        /\ adds' = adds + 1
        /\ UNCHANGED <<lastOp, appended, runVars, scored, keyed, called, dep, wr, trino>>

\* json.dump fills the write buffer; a full buffer goes to the file
Flush ==
    /\ io.phase = "writing"
    /\ Len(file.data) < Len(io.pending)
    /\ file' = [file EXCEPT !.data = SubSeq(io.pending, 1, Len(file.data) + 1)]
    /\ UNCHANGED <<cache, lastOp, appended, adds, runVars, scored, keyed, io, called, dep, wr, trino>>

\* the `with` block of _save ends: the rest of the text is written and the
\* file is closed
EndSave ==
    /\ io.phase = "writing"
    /\ file' = [exists |-> TRUE, data |-> io.pending]
    /\ io' = [io EXCEPT !.phase = "idle"]
    /\ lastOp' = Op("add_dict", io.store, <<>>, 0, <<Last(cache[io.store].trials)>>, 0)
    /\ appended' = [appended EXCEPT ![io.store] =
                        Append(@, [trial |-> Last(cache[io.store].trials), idGiven |-> FALSE])]
    /\ UNCHANGED <<cache, adds, runVars, scored, keyed, called, dep, wr, trino>>

\* _load of a store of another process: json.load raises on a text that is
\* not a complete JSON document, which is any text _save has not finished
ReaderLoad(svc) ==
    \* observed.before and observed.after keep, as history, the file as it
    \* was before the save in progress and as it will be after it
    /\ LET before == IF io.phase = "writing" THEN io.before ELSE file
           after == IF io.phase = "writing" THEN [exists |-> TRUE, data |-> io.pending]
                    ELSE file
       IN  io' = [io EXCEPT !.observed =
                     IF io.phase = "writing"
                     THEN [kind |-> "JSONDecodeError", svc |-> svc, trials |-> <<>>,
                           before |-> before, after |-> after]
                     ELSE [kind |-> "list", svc |-> svc, trials |-> Load(file, svc),
                           before |-> before, after |-> after]]
    /\ UNCHANGED <<storeVars, runVars, scored, keyed, called, dep, wr, trino>>

NotCalled == [fn |-> "none", args |-> <<>>, ret |-> 0]

----------------------------------------------------------------------------
(* pricing.py: calculate_vm_cost.  Money is counted in hundredths of a     *)
(* rouble, the unit of the 0.01 multiplier of an unlisted disk type.       *)

MaxNodes == 3

Clouds == {"selectel", "timeweb"}

\* CLOUD_PRICING
CpuCost(cloud) == IF cloud = "selectel" THEN 655 ELSE 220

RamCost(cloud) == IF cloud = "selectel" THEN 238 ELSE 180

\* disk_cost_multipliers.get(disk_type, 0.01), in hundredths
DiskMultiplier(cloud, disk_type) ==
    IF cloud = "selectel"
    THEN CASE disk_type = "fast" -> 3900
           [] disk_type = "universal" -> 1800
           [] disk_type = "universal2" -> 900
           [] disk_type = "basicssd" -> 900
           [] disk_type = "basic" -> 700
           [] OTHER -> 1
    ELSE CASE disk_type = "nvme" -> 500
           [] disk_type = "ssd" -> 400
           [] disk_type = "hdd" -> 200
           [] OTHER -> 1

DiskConfig(size_gb, disk_type, count) ==
    [size_gb |-> size_gb, disk_type |-> disk_type, count |-> count]

\* the loop over disks from position i on
RECURSIVE DiskCostFrom(_, _, _)
DiskCostFrom(cloud, disks, i) ==
    IF i > Len(disks) THEN 0
    ELSE disks[i].size_gb * disks[i].count * DiskMultiplier(cloud, disks[i].disk_type)
            + DiskCostFrom(cloud, disks, i + 1)

CostOfOneNode(cloud, cpu, ram_gb, disks_arg, nodes) ==
    LET disks == IF disks_arg = <<>> THEN <<DiskConfig(50, "fast", 1)>> ELSE disks_arg[1]
    IN  cpu * CpuCost(cloud) * 100 + ram_gb * RamCost(cloud) * 100
            + DiskCostFrom(cloud, disks, 1)

CalculateVmCost(cloud, cpu, ram_gb, disks_arg, nodes) ==
    \* disks_arg is <<>> for disks=None and <<list>> for a given list
    LET disks == IF disks_arg = <<>> THEN <<DiskConfig(50, "fast", 1)>> ELSE disks_arg[1]
        cpu_cost == cpu * CpuCost(cloud) * 100
        ram_cost == ram_gb * RamCost(cloud) * 100
        disk_cost == DiskCostFrom(cloud, disks, 1)
    IN  nodes * (cpu_cost + ram_cost + disk_cost)

\* the disks arguments of the callers and of the tests
DiskArgs ==
    {<<>>,
     <<<<>>>>,
     <<<<DiskConfig(100, "fast", 1)>>>>,
     <<<<DiskConfig(50, "fast", 1), DiskConfig(200, "basic", 1)>>>>,
     <<<<DiskConfig(50, "fast", 3)>>>>,
     <<<<DiskConfig(50, "nvme", 1)>>>>,
     <<<<DiskConfig(50, "floppy", 2)>>>>}

CalculateVmCostCall(cloud, cpu, ram_gb, disks_arg, nodes) ==
    /\ called' = [fn |-> "calculate_vm_cost",
                  args |-> <<cloud, cpu, ram_gb, disks_arg, nodes>>,
                  ret |-> CalculateVmCost(cloud, cpu, ram_gb, disks_arg, nodes)]
    /\ UNCHANGED <<storeVars, runVars, scored, keyed, io, dep, wr, trino>>

----------------------------------------------------------------------------
(* common.py: is_stale_state_error; optimizers/minio/optimizer.py:         *)
(* is_ip_conflict_error and the apply loop of deploy_minio                 *)

\* the stderr of a failed apply is a text; the model keeps the pieces of it
\* that the classification looks for, in the spelling the backend gives them
Fragments ==
    {"not found", "404", "Flavor", "IpAddressAlreadyAllocated", "already allocated",
     "already exists", "ip", "resource is busy", "try again"}

\* str.lower() of a piece
Lower(f) ==
    CASE f = "Flavor" -> "flavor"
      [] f = "IpAddressAlreadyAllocated" -> "ipaddressalreadyallocated"
      [] OTHER -> f

\* the searched texts that occur inside a lower-cased piece
Within(text) == IF text = "ipaddressalreadyallocated" THEN {text, "ip"} ELSE {text}

\* `needle in stderr.lower()`
InLower(needle, stderr) == \E f \in stderr : needle \in Within(Lower(f))

IsStaleStateError(stderr) == InLower("not found", stderr) \/ "404" \in stderr

IsIpConflictError(stderr) ==
    IF InLower("flavor", stderr) THEN FALSE
    ELSE IF "IpAddressAlreadyAllocated" \in stderr \/ InLower("already allocated", stderr)
    THEN TRUE
    ELSE IF InLower("already exists", stderr) /\ InLower("ip", stderr) THEN TRUE
    ELSE InLower("resource is busy", stderr) \/ InLower("try again", stderr)

\* the branch of the apply loop that an answer of tf.apply takes: the stale
\* state check comes before the conflict check
Classify(ret_code, stderr) ==
    IF ret_code = 0 THEN "ok"
    ELSE IF IsStaleStateError(stderr) THEN "stale"
    ELSE IF IsIpConflictError(stderr) THEN "conflict"
    ELSE "fatal"

NoDeploy ==
    [phase |-> "idle", attempt |-> 0, ret_code |-> 1, stderr |-> {}, cleared |-> 0,
     waits |-> <<>>, retried |-> <<>>, applies |-> 0, cleanup |-> "none",
     success |-> FALSE]

\* what destroy_minio / destroy_redis does with the answer of its tf.apply:
\* "ok" and "stale" return True (destroy_minio clears a stale state),
\* "failed" prints a warning and returns False
DestroyService(o, ret_code, stderr) ==
    IF ret_code = 0 THEN "ok"
    ELSE IF o = "minio" /\ IsStaleStateError(stderr) THEN "stale"
    ELSE "failed"

AbortOnFailedCleanup(kind) == IF kind = "failed" THEN "pruned" ELSE "cleaned"

\* objective() discards the success flag of the destroy before the deploy
AfterCleanup(kind) == "cleaned"

\* the cleanup of objective(): destroy_minio / destroy_redis, whose
\* get_terraform raises when `terraform init` is needed and fails
CleanupPrevious(init_ok, ret_code, stderr) ==
    /\ dep.phase = "idle"
    /\ init_ok \in InitAnswers(backend)
    /\ IF init_ok
       THEN LET kind == DestroyService(opt, ret_code, stderr)
            IN  dep' = [dep EXCEPT !.cleanup = kind,
                                   !.cleared = IF kind = "stale" THEN @ + 1 ELSE @,
                                   !.phase = AfterCleanup(kind)]
       ELSE dep' = [dep EXCEPT !.phase = "raised"]
    /\ UNCHANGED <<storeVars, runVars, scored, keyed, io, called, wr, trino>>

WaitTimeFlat(att) == 15

\* wait_time = 15 * (attempt + 1), attempt being the loop variable
WaitTime(att) == 15 * (att + 1)

\* deploy_minio / deploy_redis is entered: ret_code = 1, stderr = "", the
\* loop (in deploy_redis the single apply) starts
DeployMinio ==
    /\ dep.phase = "cleaned"
    /\ dep' = [dep EXCEPT !.phase = "loop", !.ret_code = 1, !.stderr = {}]
    /\ UNCHANGED <<storeVars, runVars, scored, keyed, io, called, wr, trino>>

\* one iteration of `for attempt in range(max_retries)`, and the return
\* that follows the loop when it was the last one; in deploy_redis the one
\* tf.apply and the `if ret_code != 0` after it
TfApply(ret_code, stderr) ==
    \* retried keeps, as history, why each apply that was followed by
    \* another apply had failed; waits keeps the time.sleep calls and
    \* applies counts the tf.apply calls
    /\ dep.phase = "loop"
    /\ LET out == Classify(ret_code, stderr)
           again == ShouldRetry(opt, out, dep.attempt)
           answered == [dep EXCEPT !.ret_code = ret_code, !.stderr = stderr,
                                   !.applies = @ + 1]
           next == [answered EXCEPT
                       !.attempt = IF again THEN @ + 1 ELSE @,
                       !.retried = IF again THEN Append(@, out) ELSE @,
                       !.phase = IF again THEN "loop" ELSE "returned"]
       IN  dep' = CASE out = "ok" ->
                         [answered EXCEPT !.phase = "returned", !.success = TRUE]
                    [] opt = "redis" ->
                         [answered EXCEPT !.phase = "returned"]
                    [] out = "stale" ->
                         [next EXCEPT !.cleared = @ + 1]
                    [] out = "conflict" ->
                         [next EXCEPT !.waits = Append(@, WaitTime(dep.attempt))]
                    [] OTHER -> next
    /\ UNCHANGED <<storeVars, runVars, scored, keyed, io, called, wr, trino>>

\* objective() after deploy_minio / deploy_redis returned: `if not success`
\* raises TrialPruned("Deploy failed"), otherwise the trial goes on
AfterDeploy ==
    /\ dep.phase = "returned"
    /\ dep' = [dep EXCEPT !.phase = IF dep.success THEN "deployed" ELSE "pruned"]
    /\ UNCHANGED <<storeVars, runVars, scored, keyed, io, called, wr, trino>>

----------------------------------------------------------------------------
(* storage/store.py: add_dict of two processes, each with a store of its   *)
(* own on the same file                                                    *)

Writers == {"A", "B"}

NoWriter == [svc |-> "redis", pc |-> "new", cache |-> NotLoaded, read |-> NoFile]

NoWrite == [by |-> "none", svc |-> "redis", listing |-> <<>>, read |-> NoFile]

NoWriters == [w |-> [x \in Writers |-> NoWriter], acked |-> <<>>, last |-> NoWrite]

\* the dicts the two processes append
WriterDicts == {MkData(None, Key("selectel", 4, 8), m, NoError, None, None) : m \in {1, 2}}

\* TrialStore(path, service) in a process: nothing is read yet
WriterOpen(w, svc) ==
    /\ wr.w[w].pc = "new"
    /\ wr' = [wr EXCEPT !.w[w].svc = svc, !.w[w].pc = "idle"]
    /\ UNCHANGED <<storeVars, runVars, scored, keyed, io, called, dep, trino>>

\* add_dict up to the call of _save: the `trials` property loads the file
\* when the store has no listing yet, the record gets its id and joins the
\* listing of this process
WriterLoad(w, data) ==
    LET me == wr.w[w]
        d == ("service" :> me.svc) @@ data
        t0 == ModelValidate(d)
        trials == IF me.cache.loaded THEN me.cache.trials ELSE Load(file, me.svc)
        t == IF t0.id = None THEN [t0 EXCEPT !.id = NextId(trials)] ELSE t0
    IN  /\ me.pc = "idle"
        /\ adds < MaxAdds
        /\ ValidItem(d)
        /\ wr' = [wr EXCEPT !.w[w].cache = Loaded(Append(trials, t)), !.w[w].pc = "read_all"]
        /\ adds' = adds + 1
        /\ UNCHANGED <<file, cache, lastOp, appended, runVars, scored, keyed, io, called, dep, trino>>

\* _save, first half: all_trials = self._load_all() reads the whole file
WriterReadAll(w) ==
    /\ wr.w[w].pc = "read_all"
    /\ wr' = [wr EXCEPT !.w[w].read = file, !.w[w].pc = "write_all"]
    /\ UNCHANGED <<storeVars, runVars, scored, keyed, io, called, dep, trino>>

\* _save, second half: the records of the other services as they were read,
\* followed by the listing of this process, replace the file; add_dict
\* returns the record
WriterWriteAll(w) ==
    \* acked keeps, as history, the records whose append returned, and last
    \* keeps what the latest write was made from
    LET me == wr.w[w]
    IN  /\ me.pc = "write_all"
        /\ file' = Save(me.read, me.svc, me.cache.trials)
        /\ wr' = [wr EXCEPT !.w[w].pc = "idle",
                            !.acked = Append(@, [rec |-> Last(me.cache.trials),
                                                 svc |-> me.svc, by |-> w]),
                            !.last = [by |-> w, svc |-> me.svc,
                                      listing |-> me.cache.trials, read |-> me.read]]
        /\ UNCHANGED <<cache, lastOp, appended, adds, runVars, scored, keyed, io, called,
                       dep, trino>>

----------------------------------------------------------------------------
(* optimizers/trino_iceberg/optimizer.py: main() in full mode, with        *)
(* objective_infra, ensure_infra and objective_config                      *)

\* the VM shapes and the service configurations that are searched
InfraSpace == {[cpu |-> 2], [cpu |-> 4]}

ConfigSpace == {[compression |-> "zstd"], [compression |-> "snappy"]}

GetDefaultTrinoConfig == [compression |-> "zstd"]

TrinoMetricNames == {"lookup_by_id_per_sec", "lookup_by_id_p99_ms"}

TrinoDirection(metric) == IF metric = "lookup_by_id_per_sec" THEN "maximize" ELSE "minimize"

\* what run_lookup_by_id_benchmark can return
TrinoBenchResults ==
    {[error |-> "Benchmark failed", lookup_by_id_per_sec |-> 0, lookup_by_id_p99_ms |-> 0]}
        \cup {[error |-> NoError, lookup_by_id_per_sec |-> l, lookup_by_id_p99_ms |-> p] :
                l \in {1, 2}, p \in {1, 2}}

\* the readiness probes of ensure_infra: all succeed, or the named one is
\* the first to time out
Probes == {"ready", "vm", "nessie", "trino"}

\* config_to_key on the shapes and configurations of this section, which
\* json.dumps maps to distinct strings
TrinoCacheKey(infra, trino_config, cloud) ==
    [cloud |-> cloud, infra |-> infra, trino |-> trino_config]

TrinoRecord(mode, infra, trino_config, result) ==
    [mode |-> mode, cloud |-> RunCloud, infra_config |-> infra, trino_config |-> trino_config,
     lookup_by_id_per_sec |-> result.lookup_by_id_per_sec,
     lookup_by_id_p99_ms |-> result.lookup_by_id_p99_ms, error |-> result.error]

RECURSIVE TrinoFindFrom(_, _, _)
TrinoFindFrom(rs, target_key, i) ==
    IF i > Len(rs) THEN <<>>
    ELSE IF /\ TrinoCacheKey(rs[i].infra_config, rs[i].trino_config, rs[i].cloud) = target_key
            /\ rs[i].error = NoError
            /\ rs[i].lookup_by_id_per_sec > 0
         THEN <<rs[i]>>
    ELSE TrinoFindFrom(rs, target_key, i + 1)

TrinoFindCachedResult(rs, infra, trino_config, cloud) ==
    TrinoFindFrom(rs, TrinoCacheKey(infra, trino_config, cloud), 1)

\* common.get_metric(r, key): the value, 0 when it is absent or falsy
GetMetric(r, key) == r[key]

\* max(results, key=...): the first of the records with the largest key
RECURSIVE MaxFrom(_, _, _, _)
MaxFrom(rs, key, i, best) ==
    IF i > Len(rs) THEN best
    ELSE MaxFrom(rs, key, i + 1,
                 IF GetMetric(rs[i], key) > GetMetric(best, key) THEN rs[i] ELSE best)

\* best_result = max(results, key=lambda r: get_metric(r, "lookup_by_id_per_sec"))
BestResult(rs) == MaxFrom(rs, "lookup_by_id_per_sec", 2, rs[1])

NoTrinoTrial ==
    [stage |-> "none", state |-> "none", infra |-> <<>>, ranOn |-> <<>>, probe |-> "none",
     reached |-> "none"]

NoTrino ==
    [stage |-> "off", metric |-> "lookup_by_id_per_sec", left |-> 0, deployed |-> <<>>,
     best_infra |-> <<>>, results |-> <<>>, ran |-> [infra |-> 0, config |-> 0],
     last |-> NoTrinoTrial]

\* main() with --mode full --metric metric --trials MaxTrinoTrials, up to
\* the first study_infra.optimize
TrinoMain(metric) ==
    /\ trino.stage = "off"
    /\ trino' = [trino EXCEPT !.stage = "infra", !.metric = metric,
                              !.left = MaxTrinoTrials \div 2]
    /\ UNCHANGED <<storeVars, runVars, scored, keyed, io, called, dep, wr>>

\* ensure_infra and the rest of the try block of objective_infra: every
\* RuntimeError, a probe that timed out included, ends in TrialPruned
ObjectiveInfra(infra, apply_ok, probe, result) ==
    \* last keeps, as history, how the trial went: the shape it recorded, the
    \* shape that was deployed while it ran, the probe that timed out and the
    \* step it reached
    LET trino_config == GetDefaultTrinoConfig
        cached == TrinoFindCachedResult(trino.results, infra, trino_config, RunCloud)
        trial == [NoTrinoTrial EXCEPT !.stage = "infra", !.infra = <<infra>>]
        counted == [trino EXCEPT !.left = @ - 1, !.ran.infra = @ + 1]
    IN  /\ trino.stage = "infra"
        /\ trino.left > 0
        /\ trino' =
             IF cached # <<>>
             THEN [counted EXCEPT !.last = [trial EXCEPT !.state = "COMPLETE",
                                                         !.reached = "cached"]]
             ELSE IF ~apply_ok
             THEN [counted EXCEPT !.last = [trial EXCEPT !.state = "PRUNED",
                                                         !.reached = "apply"]]
             ELSE IF probe # "ready"
             THEN [counted EXCEPT !.deployed = <<infra>>,
                                  !.last = [trial EXCEPT !.state = "PRUNED",
                                                         !.ranOn = <<infra>>,
                                                         !.probe = probe,
                                                         !.reached = "await_ready"]]
             ELSE IF result.error # NoError
             THEN [counted EXCEPT !.deployed = <<infra>>,
                                  !.last = [trial EXCEPT !.state = "PRUNED",
                                                         !.ranOn = <<infra>>,
                                                         !.probe = probe,
                                                         !.reached = "benchmark"]]
             ELSE [counted EXCEPT !.deployed = <<infra>>,
                                  !.results = Append(@, TrinoRecord("infra", infra,
                                                                    trino_config, result)),
                                  !.last = [trial EXCEPT !.state = "COMPLETE",
                                                         !.ranOn = <<infra>>,
                                                         !.probe = probe,
                                                         !.reached = "saved"]]
        /\ UNCHANGED <<storeVars, runVars, scored, keyed, io, called, dep, wr>>

\* main() between the two optimize calls: the best record of mode infra is
\* picked, nothing is applied, and stage 2 is given its infra_config
SelectBestInfra ==
    LET infra_results == SelectSeq(trino.results,
                                   LAMBDA r : r.cloud = RunCloud /\ r.mode = "infra")
    IN  /\ trino.stage = "infra"
        /\ trino.left = 0
        /\ trino' =
             IF infra_results = <<>>
             THEN [trino EXCEPT !.stage = "stopped"]
             ELSE [trino EXCEPT !.stage = "config",
                                !.best_infra = <<BestResult(infra_results).infra_config>>,
                                !.left = MaxTrinoTrials - MaxTrinoTrials \div 2]
        /\ UNCHANGED <<storeVars, runVars, scored, keyed, io, called, dep, wr>>

\* objective_config on fixed_infra = best_infra: Trino is reconfigured on
\* the VM that exists, no terraform apply is made
ObjectiveConfig(trino_config, reconfigured, result) ==
    LET fixed_infra == trino.best_infra[1]
        cached == TrinoFindCachedResult(trino.results, fixed_infra, trino_config, RunCloud)
        trial == [NoTrinoTrial EXCEPT !.stage = "config", !.infra = <<fixed_infra>>]
        counted == [trino EXCEPT !.left = @ - 1, !.ran.config = @ + 1]
    IN  /\ trino.stage = "config"
        /\ trino.left > 0
        /\ trino' =
             IF cached # <<>>
             THEN [counted EXCEPT !.last = [trial EXCEPT !.state = "COMPLETE",
                                                         !.reached = "cached"]]
             ELSE IF ~reconfigured
             THEN [counted EXCEPT !.last = [trial EXCEPT !.state = "PRUNED",
                                                         !.ranOn = trino.deployed,
                                                         !.reached = "reconfigure"]]
             ELSE IF result.error # NoError
             THEN [counted EXCEPT !.last = [trial EXCEPT !.state = "PRUNED",
                                                         !.ranOn = trino.deployed,
                                                         !.reached = "benchmark"]]
             ELSE [counted EXCEPT !.results = Append(@, TrinoRecord("config", fixed_infra,
                                                                    trino_config, result)),
                                  !.last = [trial EXCEPT !.state = "COMPLETE",
                                                         !.ranOn = trino.deployed,
                                                         !.reached = "saved"]]
        /\ UNCHANGED <<storeVars, runVars, scored, keyed, io, called, dep, wr>>

\* study_config.optimize returned: the finally block and show_results
TrinoDone ==
    /\ trino.stage = "config"
    /\ trino.left = 0
    /\ trino' = [trino EXCEPT !.stage = "done"]
    /\ UNCHANGED <<storeVars, runVars, scored, keyed, io, called, dep, wr>>

----------------------------------------------------------------------------

StoreInit ==
    /\ file = NoFile
    /\ cache = [s \in Stores |-> NotLoaded]
    /\ lastOp = Op("init", "redis", <<>>, 0, <<>>, 0)
    /\ appended = [s \in Stores |-> <<>>]
    /\ adds = 0

TrialInit ==
    /\ results = NoResults
    /\ pc = "idle"
    /\ cur = NoCur
    /\ attempt = 0
    /\ calls = <<>>
    /\ study = <<>>
    /\ ran = 0
    /\ restarts = 0
    /\ tornDown = FALSE
    /\ exit = NoExit
    /\ replayed = NotReplayed
    /\ scored = NotScored
    /\ keyed = NotKeyed
    /\ io = NoIo
    /\ called = NotCalled
    /\ dep = NoDeploy
    /\ wr = NoWriters
    /\ trino = NoTrino

(* the ledger under the operations of its stores *)

Init ==
    /\ StoreInit
    /\ opt = "minio"
    /\ backend = "any"
    /\ TrialInit

Next ==
    \/ \E s \in Stores : \E t \in TrialObjects(s) : Add(s, t)
    \/ \E s \in Stores : \E d \in DataDicts(s) : AddDict(s, d)
    \/ \E s \in Stores : \E k \in Keys : FindByConfigKey(s, k)
    \/ \E s \in Stores : \E k \in QueryIds : GetById(s, k)
    \/ \E s \in Stores : Count(s)
    \/ \E s \in Stores : Clear(s)
    \/ \E s \in Stores : Reload(s)

Spec == Init /\ [][Next]_vars

(* the minio and redis optimizers of optimizers/ *)

InitTrial ==
    /\ StoreInit
    /\ opt \in {"minio", "redis"}
    /\ backend \in Backends
    /\ TrialInit

NextTrial ==
    \/ \E config \in Configs : StartTrial(config)
    \/ \E init_ok \in BOOLEAN : Cleanup(init_ok)
    \/ \E out \in ApplyOutcomes : Apply(out)
    \/ \E ready \in BOOLEAN : AwaitReady(ready)
    \/ Baseline
    \/ \E out \in BenchOutputs : Benchmark(out)
    \/ Destroy
    \/ \E no_destroy \in BOOLEAN : Exit(no_destroy)
    \/ Restart({})

SpecTrial == InitTrial /\ [][NextTrial]_vars

(* get_metric_value on the results a benchmark can produce *)

ScoreInit ==
    /\ StoreInit
    /\ TrialInit
    /\ opt = "redis"
    /\ backend = "any"

NextScore ==
    \/ \E result \in ResultDicts, metric \in MetricNames : GetMetricValueCall(result, metric)
    \/ \E result \in ResultDicts, metric \in MetricNames : LegacyGetMetricValueCall(result, metric)

SpecScore == ScoreInit /\ [][NextScore]_vars

(* config_to_key on configurations built in any key order *)

NextKey ==
    \/ \E config \in RedisConfigs : RedisConfigToKeyCall(config)
    \/ \E infra \in TrinoInfras, trino_config \in TrinoConfigs :
           TrinoConfigToKeyCall(infra, trino_config)

SpecKey == ScoreInit /\ [][NextKey]_vars

(* the stores on backing files that hold items they cannot parse *)

\* items found in a backing file: sound ones of both services, one written
\* before the service field existed, and ones model_validate rejects
RawItems ==
    {[id |-> 1, service |-> "redis", cloud |-> "selectel", cpu_per_node |-> 4,
      ram_per_node |-> 8, metric |-> 1],
     [id |-> 2, service |-> "minio", cloud |-> "selectel", cpu_per_node |-> 4,
      ram_per_node |-> 8, metric |-> 2],
     [id |-> 3, cloud |-> "selectel", cpu_per_node |-> 8, ram_per_node |-> 8, metric |-> 1],
     [id |-> 4, service |-> "redis", cpu_per_node |-> 4, ram_per_node |-> 8, metric |-> 1],
     [id |-> 5, service |-> "redis", cloud |-> "selectel", cpu_per_node |-> 4,
      ram_per_node |-> 8, metric |-> -2],
     [id |-> 6, service |-> "kafka", cloud |-> "selectel", metric |-> 1]}

RawFiles ==
    {[exists |-> TRUE, data |-> q] : q \in UNION {[1..n -> RawItems] : n \in 0..MaxLedger}}

InitLoad ==
    /\ file \in RawFiles
    /\ cache = [s \in Stores |-> NotLoaded]
    /\ lastOp = Op("init", "redis", <<>>, 0, <<>>, 0)
    /\ appended = [s \in Stores |-> <<>>]
    /\ adds = 0
    /\ opt = "minio"
    /\ backend = "any"
    /\ TrialInit

NextLoad ==
    \/ \E s \in Stores : Count(s)
    \/ \E s \in Stores : \E k \in QueryIds : GetById(s, k)
    \/ \E s \in Stores : Reload(s)

SpecLoad == InitLoad /\ [][NextLoad]_vars

(* calculate_vm_cost on the shapes of the search spaces *)

NextCost ==
    \E cloud \in Clouds, cpu \in {2, 4}, ram_gb \in {4, 8}, disks_arg \in DiskArgs,
       nodes \in 1..MaxNodes :
        CalculateVmCostCall(cloud, cpu, ram_gb, disks_arg, nodes)

SpecCost == ScoreInit /\ [][NextCost]_vars

(* the cleanup and the deploy of one trial under every answer of the backend *)

InitDeploy ==
    /\ StoreInit
    /\ TrialInit
    /\ opt \in {"minio", "redis"}
    /\ backend = "any"

NextDeploy ==
    \/ \E init_ok \in BOOLEAN : \E ret_code \in {0, 1} : \E stderr \in SUBSET Fragments :
            CleanupPrevious(init_ok, ret_code, stderr)
    \/ DeployMinio
    \/ \E ret_code \in {0, 1} : \E stderr \in SUBSET Fragments : TfApply(ret_code, stderr)
    \/ AfterDeploy

SpecDeploy == InitDeploy /\ [][NextDeploy]_vars

(* the trino_iceberg optimizer in full mode *)

InitFull ==
    /\ StoreInit
    /\ TrialInit
    /\ opt = "redis"
    /\ backend = "any"

NextFull ==
    \/ \E metric \in TrinoMetricNames : TrinoMain(metric)
    \/ \E infra \in InfraSpace : \E apply_ok \in BOOLEAN : \E probe \in Probes :
            \E result \in TrinoBenchResults : ObjectiveInfra(infra, apply_ok, probe, result)
    \/ SelectBestInfra
    \/ \E trino_config \in ConfigSpace : \E reconfigured \in BOOLEAN :
            \E result \in TrinoBenchResults : ObjectiveConfig(trino_config, reconfigured, result)
    \/ TrinoDone

SpecFull == InitFull /\ [][NextFull]_vars

(* two writer processes on one backing file *)

InitWriters ==
    /\ StoreInit
    /\ TrialInit
    /\ opt = "redis"
    /\ backend = "any"

NextWriters ==
    \/ \E w \in Writers : \E svc \in Stores : WriterOpen(w, svc)
    \/ \E w \in Writers : \E d \in WriterDicts : WriterLoad(w, d)
    \/ \E w \in Writers : WriterReadAll(w)
    \/ \E w \in Writers : WriterWriteAll(w)

SpecWriters == InitWriters /\ [][NextWriters]_vars

(* a writer and a reader process on one backing file *)

NextConcurrent ==
    \/ \E s \in Stores : \E d \in DataDicts(s) : BeginSave(s, d)
    \/ Flush
    \/ EndSave
    \/ \E svc \in Stores : ReaderLoad(svc)

SpecConcurrent == Init /\ [][NextConcurrent]_vars

(* load_historical_trials on ledgers written under earlier search spaces *)

\* (cloud, cpu_per_node, ram_per_node, primary metric, error) of the records
\* such a ledger may hold
ReplayRecords ==
    {<<"selectel", 4, 8, 1, NoError>>,
     <<"selectel", 4, 8, 2, NoError>>,
     <<"selectel", 8, 8, 2, NoError>>,
     <<"selectel", 2, 4, 1, NoError>>,
     <<"selectel", 8, 4, 1, NoError>>,
     <<"selectel", 8, 16, 1, NoError>>,
     <<"selectel", None, 8, 1, NoError>>,
     <<"selectel", 4, 8, 0, "Benchmark failed">>,
     <<"timeweb", 4, 8, 1, NoError>>}

LedgerOf(svc, q) ==
    [exists |-> TRUE,
     data |-> DumpAll([i \in 1..Len(q) |->
                 [id |-> i, trial |-> None, service |-> svc, cloud |-> q[i][1],
                  cpu_per_node |-> q[i][2], ram_per_node |-> q[i][3],
                  metric |-> q[i][4], error |-> q[i][5],
                  system_baseline |-> None, timings |-> 1]])]

Ledgers(svc) ==
    {LedgerOf(svc, q) : q \in UNION {[1..n -> ReplayRecords] : n \in 0..MaxLedger}}

\* the points the oracle refuses
RejectSets == {{}, {Key("selectel", 4, 8)}}

InitReplay ==
    /\ opt \in {"minio", "redis"}
    /\ file \in Ledgers(IF opt = "redis" THEN "redis" ELSE "minio")
    /\ cache = [s \in Stores |-> NotLoaded]
    /\ lastOp = Op("init", "redis", <<>>, 0, <<>>, 0)
    /\ appended = [s \in Stores |-> <<>>]
    /\ adds = 0
    /\ backend = "any"
    /\ TrialInit

NextReplay == \E rejected \in RejectSets : Restart(rejected)

SpecReplay == InitReplay /\ [][NextReplay]_vars

(* the minio optimizer of optuna/minio-optimizer *)

InitLegacy ==
    /\ StoreInit
    /\ opt = "legacy"
    /\ backend = "any"
    /\ TrialInit

NextLegacy ==
    \/ \E config \in Configs : StartTrial(config)
    \/ \E init_ok \in BOOLEAN : Cleanup(init_ok)
    \/ \E out \in ApplyOutcomes : Apply(out)
    \/ \E ready \in BOOLEAN : AwaitReady(ready)
    \/ Baseline
    \/ \E out \in BenchOutputs : Benchmark(out)
    \/ Destroy
    \/ \E no_destroy \in BOOLEAN : Exit(no_destroy)

SpecLegacy == InitLegacy /\ [][NextLegacy]_vars

----------------------------------------------------------------------------
(* Properties of the ledger *)

AddOps == {"add", "add_dict"}

\* the items of service svc in the backing file, as written
RawPartition(f, svc) ==
    SelectSeq(f.data, LAMBDA it : "service" \in DOMAIN it /\ it["service"] = svc)

\* item holds exactly the content of trial t
ItemIs(it, t) ==
    \A f \in TrialFields :
        IF f \in DOMAIN it THEN it[f] = t[f] ELSE t[f] = FieldDefault(f)

AppendedTrials(s) == [i \in 1..Len(appended[s]) |-> appended[s][i].trial]

\* positions of the listing ts that hold a record with key k, no error and a
\* positive primary metric
GoodAt(ts, k) ==
    {i \in 1..Len(ts) : /\ ts[i].cloud = k.cloud
                        /\ ts[i].cpu_per_node = k.cpu_per_node
                        /\ ts[i].ram_per_node = k.ram_per_node
                        /\ ts[i].error = NoError
                        /\ ts[i].metric # None
                        /\ ts[i].metric > 0}

\* C1: find_by_config_key returns none exactly when the ledger holds no
\* record with the key that has no error and a positive primary metric
\* (also on an empty ledger and when failed records with the key exist);
\* the record it returns is never a failed one.
C1_FindNoneWithoutSuccess ==
    lastOp.op = "find_by_config_key" =>
        LET ts == cache[lastOp.store].trials
            k == lastOp.key[1]
        IN  /\ (lastOp.res = <<>>) <=> (GoodAt(ts, k) = {})
            /\ lastOp.res # <<>> =>
                    /\ lastOp.res[1].error = NoError
                    /\ lastOp.res[1].metric > 0
                    /\ lastOp.res[1].cloud = k.cloud
                    /\ lastOp.res[1].cpu_per_node = k.cpu_per_node
                    /\ lastOp.res[1].ram_per_node = k.ram_per_node

\* C1 witness: a lookup returned none although a record with an error (or a
\* zero or missing metric) is stored under the key
C1_Witness ==
    /\ lastOp.op = "find_by_config_key"
    /\ lastOp.res = <<>>
    /\ \E i \in 1..Len(cache[lastOp.store].trials) :
          LET t == cache[lastOp.store].trials[i]
          IN  /\ t.cloud = lastOp.key[1].cloud
              /\ t.cpu_per_node = lastOp.key[1].cpu_per_node
              /\ t.ram_per_node = lastOp.key[1].ram_per_node
              /\ t.error # NoError

\* C3: when the ledger holds successful records with the key,
\* find_by_config_key returns the earliest-inserted of them, unchanged.
C3_FindEarliestSuccess ==
    lastOp.op = "find_by_config_key" =>
        LET ts == cache[lastOp.store].trials
            good == GoodAt(ts, lastOp.key[1])
        IN  good # {} =>
                lastOp.res = <<ts[CHOOSE i \in good : \A j \in good : i <= j]>>

\* C3 witness: two successful records with different metrics share the key,
\* both appended through this store, and a lookup returned a record
C3_Witness ==
    /\ lastOp.op = "find_by_config_key"
    /\ lastOp.res # <<>>
    /\ LET ts == AppendedTrials(lastOp.store)
           good == GoodAt(ts, lastOp.key[1])
       IN  \E i, j \in good : i < j /\ ts[i].metric # ts[j].metric

C5_AppendOnly ==
    \A s \in Stores :
        LET recs == AppendedTrials(s)
            part == RawPartition(file, ServiceOf(s))
        IN  /\ IsSuffix(recs, TrialsOf(s))
            /\ Len(recs) <= Len(part)
            /\ \A i \in 1..Len(recs) : ItemIs(part[Len(part) - Len(recs) + i], recs[i])

\* C5 witness: a read or a reload was made on a store that appended twice
C5_Witness ==
    /\ lastOp.op \in {"find_by_config_key", "get_by_id", "count", "reload"}
    /\ Len(appended[lastOp.store]) >= 2

\* all records of the partition were appended to an empty ledger, none with
\* a preset id
FromEmpty(s) ==
    /\ Len(TrialsOf(s)) = Len(appended[s])
    /\ \A i \in 1..Len(appended[s]) : ~appended[s][i].idGiven

C7_AppendPersists ==
    lastOp.op \in AddOps =>
        LET s == lastOp.store
            fresh == Load(file, ServiceOf(s))
        IN  /\ file.exists
            /\ fresh = cache[s].trials
            /\ IsSuffix(AppendedTrials(s), fresh)
            /\ fresh # <<>>
            /\ fresh[Len(fresh)] = lastOp.res[1]

\* C7 witness: a second append has returned
C7_Witness ==
    /\ lastOp.op \in AddOps
    /\ Len(appended[lastOp.store]) >= 2

----------------------------------------------------------------------------
(* Properties of the objective *)

\* the key of the candidate of the trial that has just been started
StartedKey == IF pc = "idle" THEN study[Len(study)].key ELSE cur.key

C8_FailedNeverObserved ==
    \A i \in 1..Len(study) :
        LET e == study[i]
        IN  (e.failure # "none" \/ (e.rec # <<>> /\ e.rec[1].error # NoError))
                => (e.state = "PRUNED" /\ e.value = None)

\* C9 as stated: every run that took a failure branch (apply failed,
\* benchmark failed) is pruned and has appended a record with an error to
\* the ledger.
C9_FailedIsRecorded ==
    \A i \in 1..Len(study) :
        LET e == study[i]
            ts == Load(file, Svc)
        IN  (e.kind = "run" /\ e.failure # "none")
                => /\ e.state = "PRUNED"
                   /\ e.rec # <<>>
                   /\ e.rec[1].error # NoError
                   /\ \E j \in 1..Len(ts) : ts[j] = e.rec[1]

\* C10 as stated: a run whose benchmark output had no total, or a total of
\* 0, took the benchmark-failed branch: the trial is pruned, not completed,
\* and no record without an error and with a positive metric was saved.
C10_ZeroMetricIsFailure ==
    \A i \in 1..Len(study) :
        LET e == study[i]
        IN  e.bench \in {"unparsed", "zero"}
                => /\ e.failure = "benchmark"
                   /\ e.state = "PRUNED"
                   /\ e.rec # <<>> => ~(e.rec[1].error = NoError /\ e.rec[1].metric > 0)

NumApplies(cs) == Len(SelectSeq(cs, LAMBDA c : c = "apply"))

\* C11: in the optimizer with an apply loop, a trial never makes more than
\* max_retries apply calls (when an apply is about to be made, fewer than
\* max_retries were made before it), and against a backend that answers
\* every apply with a transient conflict every run ends as a failed trial:
\* pruned, with a record carrying an error in the ledger.
C11_RetryCeiling ==
    opt = "minio" =>
        /\ NumApplies(calls) <= MaxRetries
        /\ pc = "apply" => (NumApplies(calls) = attempt /\ attempt < MaxRetries)
        /\ backend = "always_conflict" =>
              \A i \in 1..Len(study) :
                  study[i].kind = "run" =>
                      /\ study[i].failure = "deploy"
                      /\ study[i].state = "PRUNED"
                      /\ study[i].rec # <<>>
                      /\ study[i].rec[1].error = "Deploy failed"
                      /\ \E j \in 1..Len(Load(file, "minio")) :
                            Load(file, "minio")[j] = study[i].rec[1]

\* C11 witness: against the always-conflicting backend a trial has ended
\* failed, and a later trial is about to make its last allowed apply
C11_Witness ==
    /\ opt = "minio"
    /\ backend = "always_conflict"
    /\ study # <<>>
    /\ study[1].failure = "deploy"
    /\ pc = "apply"
    /\ attempt = MaxRetries - 1
    /\ NumApplies(calls) = MaxRetries - 1

\* C12 as stated: when main() has ended, by return or by an exception, and
\* no-destroy was not set, destroy_all was issued; when no-destroy was set,
\* neither destroy_all nor a destroy of a deployment the run had made and
\* benchmarked was issued.
C12_TeardownFollowsPolicy ==
    pc = "exited" =>
        IF exit.no_destroy THEN ~exit.destroy_all /\ ~tornDown
        ELSE exit.destroy_all

\* C13 as stated: main() never ends because of an error raised inside a
\* trial; it ends when study.optimize() has returned.
C13_TrialErrorsContained ==
    pc = "exited" => exit.cause = "done"

----------------------------------------------------------------------------
(* Properties of load_historical_trials *)

\* record r passes the selection of replay for the cloud
Eligible(r, cloud) ==
    /\ r.cloud = cloud
    /\ r.error = NoError
    /\ r.metric # None
    /\ r.metric > 0
    /\ r.cpu_per_node # None
    /\ r.cpu_per_node # 0

SameKey(r, t) ==
    r.cloud = t.cloud /\ r.cpu_per_node = t.cpu_per_node /\ r.ram_per_node = t.ram_per_node

\* position i of ts holds the earliest eligible record of its key
FirstOfKey(ts, i, cloud) ==
    /\ Eligible(ts[i], cloud)
    /\ \A j \in 1..(i - 1) : ~(Eligible(ts[j], cloud) /\ SameKey(ts[j], ts[i]))

ReplayLedger == Load(file, Svc)

ReplayDone == restarts > 0 /\ pc = "idle" /\ ran = 0

\* C14: no record added by replay has a cpu_per_node outside the allowed
\* CPU set or a ram_per_node outside the allowed RAM set; such ledger
\* entries are dropped, and what is added is an unchanged ledger record.
C14_ReplayOnlyInSpace ==
    ReplayDone =>
        \A k \in 1..Len(replayed.added) :
            /\ replayed.added[k].cpu_per_node \in CpuSpace
            /\ replayed.added[k].ram_per_node \in RamSpace
            /\ \E i \in 1..Len(ReplayLedger) : ReplayLedger[i] = replayed.added[k]

\* C14 witness: replay added something from a ledger that holds an eligible
\* record whose CPU value is not allowed while its RAM value is
C14_Witness ==
    /\ ReplayDone
    /\ replayed.added # <<>>
    /\ \E i \in 1..Len(ReplayLedger) :
          /\ Eligible(ReplayLedger[i], RunCloud)
          /\ ReplayLedger[i].cpu_per_node \notin CpuSpace
          /\ ReplayLedger[i].ram_per_node \in RamSpace

\* C15: the records one replay adds have pairwise different keys, each is
\* the earliest eligible ledger entry of its key, and they are added in
\* ledger order.
C15_ReplayFirstOfKey ==
    ReplayDone =>
        /\ \A k \in 1..Len(replayed.added) :
              \E i \in 1..Len(ReplayLedger) :
                  /\ ReplayLedger[i] = replayed.added[k]
                  /\ FirstOfKey(ReplayLedger, i, RunCloud)
        /\ \A k, m \in 1..Len(replayed.added) :
              k < m => /\ ~SameKey(replayed.added[k], replayed.added[m])
                       /\ replayed.added[k].id < replayed.added[m].id

\* C15 witness: the ledger holds two eligible records of one key with
\* different metrics and replay added the first of them
C15_Witness ==
    /\ ReplayDone
    /\ \E i, j \in 1..Len(ReplayLedger) :
          /\ i < j
          /\ FirstOfKey(ReplayLedger, i, RunCloud)
          /\ Eligible(ReplayLedger[j], RunCloud)
          /\ SameKey(ReplayLedger[i], ReplayLedger[j])
          /\ ReplayLedger[i].metric # ReplayLedger[j].metric
          /\ \E k \in 1..Len(replayed.added) : replayed.added[k] = ReplayLedger[i]

\* C16: no record added by replay has a ram_per_node below the minimum RAM
\* of its own cpu_per_node on the cloud, whether or not that RAM value is in
\* the unconditioned RAM set.
C16_ReplayConditionedRam ==
    ReplayDone =>
        \A k \in 1..Len(replayed.added) :
            replayed.added[k].ram_per_node
                >= GetMinRamForCpu(RunCloud, replayed.added[k].cpu_per_node)

\* C16 witness: replay added something from a ledger that holds an eligible
\* record with an allowed CPU value and a RAM value that is in the RAM set
\* but too small for that CPU value
C16_Witness ==
    /\ ReplayDone
    /\ replayed.added # <<>>
    /\ \E i \in 1..Len(ReplayLedger) :
          /\ Eligible(ReplayLedger[i], RunCloud)
          /\ ReplayLedger[i].cpu_per_node \in CpuSpace
          /\ ReplayLedger[i].ram_per_node \in RamSpace
          /\ ReplayLedger[i].ram_per_node
                < GetMinRamForCpu(RunCloud, ReplayLedger[i].cpu_per_node)

\* position i of ts is a point replay offers to the oracle
Offered(ts, i) ==
    /\ FirstOfKey(ts, i, RunCloud)
    /\ ts[i].cpu_per_node \in CpuSpace
    /\ ts[i].ram_per_node \in RamSpace
    /\ ts[i].ram_per_node >= GetMinRamForCpu(RunCloud, ts[i].cpu_per_node)

\* C17: replay returns when the oracle rejects points: what it added are
\* exactly the offered points the oracle did not reject, in ledger order,
\* the study grew by exactly these, and the returned count is their number.
C17_ReplaySkipsRejected ==
    ReplayDone =>
        LET ts == ReplayLedger
            accepted == {i \in 1..Len(ts) :
                            Offered(ts, i) /\ GetConfigKey(ts[i]) \notin replayed.rejected}
        IN  /\ replayed.loaded = Cardinality(accepted)
            /\ Len(replayed.added) = Cardinality(accepted)
            /\ \A i \in accepted : \E k \in 1..Len(replayed.added) : replayed.added[k] = ts[i]
            /\ Len(study) >= Len(replayed.added)
            /\ \A k \in 1..Len(replayed.added) :
                  LET e == study[Len(study) - Len(replayed.added) + k]
                  IN  e.kind = "replay" /\ e.state = "COMPLETE" /\ e.rec = <<replayed.added[k]>>

\* C17 witness: the oracle rejected an offered point and replay added a
\* point that comes later in the ledger
C17_Witness ==
    /\ ReplayDone
    /\ \E i, j \in 1..Len(ReplayLedger) :
          /\ i < j
          /\ Offered(ReplayLedger, i)
          /\ GetConfigKey(ReplayLedger[i]) \in replayed.rejected
          /\ \E k \in 1..Len(replayed.added) : replayed.added[k] = ReplayLedger[j]

----------------------------------------------------------------------------
(* Properties of get_metric_value *)

\* the scalar the function of the last call gives raw value v of the metric
ScoreOf(fn, metric, v) ==
    LET result == [m \in MetricNames |-> IF m = metric THEN v ELSE None]
    IN  IF fn = "metrics" THEN MetricsGetMetricValue(result, metric)
        ELSE LegacyRedisGetMetricValue(result, metric)

\* C18: the scalar of a minimize metric whose raw value is 0 is below the
\* scalar of every positive raw value of that metric, so the maximizing study
\* ranks it last.
C18_ZeroMinimizeIsWorst ==
    (/\ scored.fn # "none"
     /\ Direction(scored.metric) = "minimize"
     /\ scored.result[scored.metric] = 0)
        => \A v \in 1..MaxValue : scored.value < ScoreOf(scored.fn, scored.metric, v)

\* C19: for a raw value v > 0 the scalar of a maximize metric is v and the
\* scalar of a minimize metric is -v, hence one is the negation of the other.
C19_DirectionScalar ==
    scored.fn # "none" =>
        /\ scored.result[scored.metric] > 0 =>
              scored.value = IF Direction(scored.metric) = "maximize"
                             THEN scored.result[scored.metric]
                             ELSE -scored.result[scored.metric]
        /\ \A v \in 1..MaxValue :
              ScoreOf(scored.fn, "p99_latency_ms", v) = -ScoreOf(scored.fn, "ops_per_sec", v)

\* C19 witness: a minimize metric with a positive raw value was scored
C19_Witness ==
    /\ scored.fn = "redis-optimizer"
    /\ Direction(scored.metric) = "minimize"
    /\ scored.result[scored.metric] > 0
    /\ scored.value = -scored.result[scored.metric]

----------------------------------------------------------------------------
(* Properties of config_to_key *)

\* C20: the key of a configuration is the same string for every insertion
\* order of the keys of its dicts, and computing it again gives it again.
C20_KeyOrderIndependent ==
    /\ keyed.fn = "redis" =>
          \A p \in Orders(keyed.config) : RedisConfigToKey(p, RunCloud) = keyed.key
    /\ keyed.fn = "trino" =>
          \A pi \in Orders(keyed.infra), pt \in Orders(keyed.trino_config) :
              TrinoConfigToKey(pi, pt, RunCloud) = keyed.key

\* C20 witness: a key was computed from dicts that were not built in sorted
\* key order, and it is the string json.dumps gives for the sorted dicts
C20_Witness ==
    /\ keyed.fn = "trino"
    /\ keyed.infra = <<<<"ram_gb", JInt(8)>>, <<"disk_type", JStr("fast")>>, <<"cpu", JInt(4)>>>>
    /\ keyed.trino_config = <<<<"task_concurrency", JInt(8)>>, <<"compression", JStr("zstd")>>>>
    /\ keyed.key = "{\"cloud\": \"selectel\", \"infra\": {\"cpu\": 4, \"disk_type\": \"fast\", \"ram_gb\": 8}, \"trino\": {\"compression\": \"zstd\", \"task_concurrency\": 8}}"

----------------------------------------------------------------------------
(* Properties of the trial record *)

\* the record has no error and its primary metric is present and positive
ErrorFreeAndPositive(t) == t.error = NoError /\ t.metric # None /\ t.metric > 0

\* C21: for every record a store lists, is_successful() holds exactly when
\* the record has no error and its primary metric is present and above 0;
\* this is required of both Trial models.
C21_SuccessfulIffErrorFreePositive ==
    \A s \in Stores : \A i \in 1..Len(cache[s].trials) :
        LET t == cache[s].trials[i]
        IN  /\ IsSuccessful(t) <=> ErrorFreeAndPositive(t)
            /\ NestedIsSuccessful(t) <=> ErrorFreeAndPositive(t)

\* C22: every record of the running optimizer in the ledger has either an
\* error or a positive primary metric, and never both or neither.
C22_ExactlyOnePopulated ==
    opt \in {"minio", "redis"} =>
        \A i \in 1..Len(Load(file, Svc)) :
            LET t == Load(file, Svc)[i]
            IN  (t.error # NoError) # (t.metric # None /\ t.metric > 0)

----------------------------------------------------------------------------
(* Properties of the store operations *)

\* the ids of the listing ts are strictly increasing in insertion order
IdsIncrease(ts) == \A i, j \in 1..Len(ts) : i < j => ts[i].id < ts[j].id

\* C25 as stated: every append gives the record the id max(ids already in
\* the partition) + 1, or 1 when the partition is empty.
C25_IdIsMaxIdPlusOne ==
    [][lastOp'.op \in AddOps =>
          LET ts == TrialsOf(lastOp'.store)
          IN  lastOp'.res[1].id = IF ts = <<>> THEN 1 ELSE MaxOver(ts, "id") + 1]_vars

\* C25 amended: every append of a record that carries no id gives it the id
\* max(ids and trial numbers already in the partition) + 1, or 1 when the
\* partition is empty; in a partition built by such appends only, the ids
\* are strictly increasing in insertion order, hence pairwise distinct.
C25_IdIsMaxPlusOneAmended ==
    [][(lastOp'.op \in AddOps /\ ~Last(appended'[lastOp'.store]).idGiven) =>
          LET s == lastOp'.store
              ts == TrialsOf(s)
          IN  /\ lastOp'.res[1].id =
                    IF ts = <<>> THEN 1
                    ELSE Max2(MaxOver(ts, "id"), MaxOver(ts, "trial")) + 1
              /\ \A i \in 1..Len(ts) : ts[i].id # None => ts[i].id < lastOp'.res[1].id
              /\ (FromEmpty(s) /\ IdsIncrease(ts)) => IdsIncrease(cache'[s].trials)]_vars

\* C25 witness: a store has appended two records without a preset id, the
\* first of which carries a trial number above the ids in the partition
C25_Witness ==
    /\ lastOp.op \in AddOps
    /\ FromEmpty(lastOp.store)
    /\ Len(appended[lastOp.store]) >= 2
    /\ appended[lastOp.store][1].trial.trial = 2
    /\ IdsIncrease(cache[lastOp.store].trials)

ReadOps == {"find_by_config_key", "get_by_id", "count"}

\* C26: reload() leaves the store without a cached listing, and the listing
\* the next read of that store works on is exactly what the backing file
\* holds for the service, whatever was in memory before.
C26_ReloadReadsFile ==
    [][/\ lastOp'.op = "reload" =>
            /\ cache'[lastOp'.store] = NotLoaded
            /\ file' = file
       /\ (lastOp.op = "reload" /\ lastOp'.op \in ReadOps /\ lastOp'.store = lastOp.store) =>
            /\ cache'[lastOp.store] = Loaded(Load(file, ServiceOf(lastOp.store)))
            /\ lastOp'.op = "count" => lastOp'.n = Len(Load(file, ServiceOf(lastOp.store)))]_vars

\* C26 witness: a reload discarded a listing that was not what the backing
\* file holds for the service
C26_Witness ==
    /\ lastOp.op = "reload"
    /\ lastOp.res # <<>>
    /\ lastOp.res # Load(file, ServiceOf(lastOp.store))

\* C27: after clear() the store's listing is empty, so count() is 0, and the
\* backing file does not exist.
C27_ClearEmptiesAndDeletes ==
    [][/\ lastOp'.op = "clear" =>
            /\ cache'[lastOp'.store] = Loaded(<<>>)
            /\ ~file'.exists
       /\ (lastOp.op = "clear" /\ lastOp'.op = "count" /\ lastOp'.store = lastOp.store) =>
            lastOp'.n = 0]_vars

\* C27 witness: a clear was made on a file that held records
C27_Witness ==
    /\ lastOp.op = "clear"
    /\ lastOp.n > 0
    /\ ~file.exists

\* item it of a backing file is a sound record of service svc: it names the
\* service or none, it names a cloud, and its metric is not negative
SoundFor(it, svc) ==
    /\ "service" \in DOMAIN it => it["service"] = svc
    /\ "cloud" \in DOMAIN it
    /\ "metric" \in DOMAIN it => it["metric"] >= 0

\* C24: a load lists, in file order, exactly the sound items of the service:
\* an item that does not parse is left out and every sound item after it is
\* still listed.
C24_BadRecordsSkipped ==
    \A s \in Stores :
        cache[s].loaded =>
            LET svc == ServiceOf(s)
                ts == cache[s].trials
                sound == {i \in 1..Len(file.data) : SoundFor(file.data[i], svc)}
            IN  /\ Len(ts) = Cardinality(sound)
                /\ \A i \in sound :
                      LET t == ts[Cardinality({j \in sound : j <= i})]
                      IN  /\ t.service = svc
                          /\ \A f \in TrialFields \ {"service"} :
                                IF f \in DOMAIN file.data[i] THEN t[f] = file.data[i][f]
                                ELSE t[f] = FieldDefault(f)

\* C24 witness: a store has listed a record that comes after an item of its
\* own service that does not parse
C24_Witness ==
    \E s \in Stores :
        /\ cache[s].loaded
        /\ cache[s].trials # <<>>
        /\ \E i, j \in 1..Len(file.data) :
              /\ i < j
              /\ "service" \in DOMAIN file.data[i]
              /\ file.data[i]["service"] = ServiceOf(s)
              /\ ~SoundFor(file.data[i], ServiceOf(s))
              /\ SoundFor(file.data[j], ServiceOf(s))

\* C23: whatever a reader's load returns while or after a writer saves, it is
\* the complete content of the service's partition before that save or the
\* complete content after it; the load never fails on a half-written file.
C23_ReaderSeesWholeSave ==
    io.observed.kind # "none" =>
        /\ io.observed.kind = "list"
        /\ \/ io.observed.trials = Load(io.observed.before, io.observed.svc)
           \/ io.observed.trials = Load(io.observed.after, io.observed.svc)

----------------------------------------------------------------------------
(* Properties of calculate_vm_cost *)

\* size x count x multiplier summed over the disks, last disk first
RECURSIVE SumDisks(_, _)
SumDisks(cloud, disks) ==
    IF disks = <<>> THEN 0
    ELSE SumDisks(cloud, SubSeq(disks, 1, Len(disks) - 1))
            + Last(disks).size_gb * Last(disks).count
                * DiskMultiplier(cloud, Last(disks).disk_type)

\* C28: the cost is nodes x (cpu x cpu_cost + ram_gb x ram_cost + the sum of
\* size x count x multiplier over the disks); the shape cpu=2, ram_gb=4 with
\* the default 50 GB "fast" disk on one selectel node costs 4212; N nodes
\* cost N times one node.
C28_CostFormula ==
    called.fn = "calculate_vm_cost" =>
        LET cloud == called.args[1]
            cpu == called.args[2]
            ram_gb == called.args[3]
            disks_arg == called.args[4]
            nodes == called.args[5]
            disks == IF disks_arg = <<>> THEN <<DiskConfig(50, "fast", 1)>> ELSE disks_arg[1]
        IN  /\ called.ret = nodes * (cpu * CpuCost(cloud) * 100 + ram_gb * RamCost(cloud) * 100
                                        + SumDisks(cloud, disks))
            /\ called.ret = nodes * CalculateVmCost(cloud, cpu, ram_gb, disks_arg, 1)
            /\ (cloud = "selectel" /\ cpu = 2 /\ ram_gb = 4 /\ disks_arg = <<>>) =>
                    called.ret = nodes * 4212 * 100

\* C28 witness: the cost of three selectel nodes of the shape cpu=2,
\* ram_gb=4 with the default disk was computed, and it is 3 x 4212
C28_Witness ==
    /\ called.fn = "calculate_vm_cost"
    /\ called.args = <<"selectel", 2, 4, <<>>, 3>>
    /\ called.ret = 3 * 4212 * 100

StaleRetries(d) == Len(SelectSeq(d.retried, LAMBDA o : o = "stale"))

\* C29 as stated: in one deploy_minio call at most one apply is made again
\* because the apply before it failed with a stale-state error, and every
\* such apply is preceded by a clearing of the local state.
C29_OneStaleRetry ==
    /\ StaleRetries(dep) <= 1
    /\ StaleRetries(dep) <= dep.cleared

\* C30 as stated: after a failed apply whose stderr holds "flavor" in any
\* spelling, whatever else it holds, deploy_minio has returned False and has
\* not gone on to another apply.
C30_FlavorIsFatal ==
    (dep.phase # "idle" /\ dep.ret_code # 0 /\ InLower("flavor", dep.stderr))
        => /\ dep.phase \in {"returned", "pruned"}
           /\ ~dep.success
           /\ Classify(dep.ret_code, dep.stderr) = "fatal"


\* the stderr of the last apply is neither stale state nor a transient
\* resource conflict
FatalAnswer(d) ==
    /\ d.applies > 0
    /\ d.ret_code # 0
    /\ ~IsStaleStateError(d.stderr)
    /\ ~IsIpConflictError(d.stderr)

\* C31: once an apply has failed with an error that is neither stale state
\* nor a transient conflict, deploy has returned False without another
\* apply (every apply before it was a retried one, so the failed apply is
\* the last of the trial), and the objective prunes the trial as
\* "Deploy failed"; this holds for deploy_minio and for deploy_redis.
C31_FatalApplyFailsAtOnce ==
    FatalAnswer(dep) =>
        /\ dep.phase \in {"returned", "pruned"}
        /\ ~dep.success
        /\ Len(dep.retried) = dep.attempt
        /\ dep.applies = dep.attempt + 1
        /\ ~ENABLED (\E ret_code \in {0, 1} : \E stderr \in SUBSET Fragments :
                        TfApply(ret_code, stderr))

\* C31 witness: the second apply of a minio trial, made after a transient
\* conflict, failed with an unknown error and the trial was pruned
C31_Witness ==
    /\ opt = "minio"
    /\ FatalAnswer(dep)
    /\ dep.retried = <<"conflict">>
    /\ dep.attempt = 1
    /\ dep.phase = "pruned"


\* C34: in one deploy_minio call the wait made after the apply of attempt
\* number k (counted from 1) that failed with a transient conflict is
\* 15 x k seconds, so the waits of a call are strictly increasing, and
\* three conflicts in a row wait 15, 30 and 45 seconds.
C34_BackoffGrowsLinearly ==
    /\ \A i \in 1..Len(dep.waits) : \E k \in 1..MaxRetries : dep.waits[i] = 15 * k
    /\ \A i \in 1..Len(dep.waits) : \A j \in 1..Len(dep.waits) :
            i < j => dep.waits[i] < dep.waits[j]
    /\ \A k \in 1..Len(dep.retried) :
            dep.retried[k] = "conflict" => \E i \in 1..Len(dep.waits) : dep.waits[i] = 15 * k
    /\ (dep.phase = "loop" /\ \A k \in 1..Len(dep.retried) : dep.retried[k] = "conflict")
            => dep.waits = [k \in 1..dep.attempt |-> 15 * k]
    /\ Len(dep.waits) = MaxRetries => dep.waits = [k \in 1..MaxRetries |-> 15 * k]

\* C34 witness: every apply of a call was answered with a transient
\* conflict, and the call waited 15, 30 and 45 seconds before giving up
C34_Witness ==
    /\ dep.retried = <<"conflict", "conflict">>
    /\ dep.waits = <<15, 30, 45>>
    /\ dep.phase = "pruned"


\* the phase a step leaves
PhaseBefore(next) ==
    CASE next = "apply" -> {"cleanup", "apply"}
      [] next = "ready" -> {"apply"}
      [] next = "baseline" -> {"ready"}
      [] next = "benchmark" -> {"ready", "baseline"}
      [] OTHER -> {"idle", "cleanup", "apply", "ready", "baseline", "benchmark", "destroy",
                   "raising", "exited"}

\* C32 as stated: every step of an executed trial that enters a phase comes
\* from the phase before it in the order cleanup, apply, await-ready,
\* baseline, benchmark (so baseline and benchmark are entered only after an
\* apply that succeeded), and every step that ends the trial as failed
\* (pruned, or failed by an exception) is taken from apply, await-ready or
\* benchmark.
C32_PhaseOrder ==
    [][/\ pc' # pc => pc \in PhaseBefore(pc')
       /\ (Len(study') = Len(study) + 1 /\ Last(study').kind \in {"run", "aborted"}
             /\ Last(study').state \in {"PRUNED", "FAIL"})
            => pc \in {"apply", "ready", "benchmark"}]_vars


\* C38: when the destroy of the cleanup step returned an error, the trial
\* was not ended by it: the deploy follows (it can be started, or was), and
\* a trial that ended pruned did so after an apply of its own deploy.
C38_CleanupFailureDoesNotAbort ==
    dep.cleanup = "failed" =>
        /\ dep.phase \in {"cleaned", "loop", "returned", "deployed", "pruned"}
        /\ dep.phase = "cleaned" => ENABLED DeployMinio
        /\ dep.phase # "cleaned" => (dep.applies > 0 \/ dep.phase = "loop")
        /\ dep.phase = "pruned" => (dep.applies > 0 /\ dep.ret_code # 0)

\* C38 witness: the destroy of the cleanup step returned an error and the
\* deploy that followed succeeded at its first apply
C38_Witness ==
    /\ dep.cleanup = "failed"
    /\ dep.phase = "deployed"
    /\ dep.applies = 1


\* C39 as stated: get_by_id(k) returns a record of the store's listing
\* whose id is k when the listing holds such a record, and none when it
\* holds no record whose id is k.
C39_GetByIdReturnsRecordOfId ==
    lastOp.op = "get_by_id" =>
        LET trials == cache[lastOp.store].trials
            k == lastOp.arg
            has == \E i \in 1..Len(trials) : trials[i].id = k
        IN  /\ has => (lastOp.res # <<>> /\ lastOp.res[1].id = k)
            /\ ~has => lastOp.res = <<>>


\* C40 as stated: a clear() of the store of one service leaves the records
\* that the backing file holds for every other service in the file.
C40_ClearKeepsOtherServices ==
    [][lastOp'.op = "clear" =>
          \A b \in Stores \ {lastOp'.store} :
              Load(file', ServiceOf(b)) = Load(file, ServiceOf(b))]_vars


\* a record is in the partition of its service in the file
InFile(rec, svc) == \E i \in 1..Len(Load(file, svc)) : Load(file, svc)[i] = rec

\* C35: the last writer wins.  After a write the partition of the writer's
\* service in the file is the listing of that writer, whatever other
\* processes had appended to it, and a record whose append returned is in
\* the file exactly when the last writer listed it or, for a record of
\* another service, read it at the start of its save.
C35_LastWriterWins ==
    wr.last.by # "none" =>
        /\ Load(file, wr.last.svc) = wr.last.listing
        /\ \A i \in 1..Len(wr.acked) :
              LET a == wr.acked[i]
              IN  InFile(a.rec, a.svc) <=>
                      IF a.svc = wr.last.svc
                      THEN \E j \in 1..Len(wr.last.listing) : wr.last.listing[j] = a.rec
                      ELSE \E j \in 1..Len(Load(wr.last.read, a.svc)) :
                                Load(wr.last.read, a.svc)[j] = a.rec

\* C35 witness: both appends have returned, the two records differ, and the
\* record of the first writer is missing from the file
C35_Witness ==
    /\ \A w \in Writers : wr.w[w].pc = "idle"
    /\ Len(wr.acked) = 2
    /\ wr.acked[1].rec # wr.acked[2].rec
    /\ wr.acked[1].by # wr.acked[2].by
    /\ ~InFile(wr.acked[1].rec, wr.acked[1].svc)
    /\ InFile(wr.acked[2].rec, wr.acked[2].svc)


\* a record of results.json that counts as successful for the cache: no
\* error, a positive primary metric, baseline and timings present
LegacySuccessful(r) ==
    /\ r.error = NoError
    /\ r.metric > 0
    /\ r.system_baseline # None
    /\ r.timings # None

\* C36 as stated: for every candidate, when results.json holds a successful
\* record with the candidate's key, find_cached_result returns a successful
\* record with that key, whatever failed records with the key precede it.
C36_FailedRecordsAreAbsent ==
    opt = "legacy" =>
        \A config \in Configs :
            LET rs == LoadResults(results)
                key == ConfigToKey(config, RunCloud)
                found == LegacyFindCachedResult(results, config, RunCloud)
            IN  (\E i \in 1..Len(rs) :
                    ConfigToKey(rs[i], rs[i].cloud) = key /\ LegacySuccessful(rs[i]))
                    => /\ found # <<>>
                       /\ LegacySuccessful(found[1])
                       /\ ConfigToKey(found[1], found[1].cloud) = key


\* C33 as stated: a trial in which a readiness probe timed out went on to
\* the benchmark; it was not ended at the probe.
C33_ReadinessTimeoutProceeds ==
    trino.last.probe \in {"vm", "nessie", "trino"} =>
        /\ trino.last.reached \in {"benchmark", "saved"}
        /\ trino.last.reached = "saved" => trino.last.state = "COMPLETE"

\* record a is at least as good as record b on the metric
AtLeastAsGood(a, b, metric) ==
    IF TrinoDirection(metric) = "maximize" THEN a[metric] >= b[metric]
    ELSE a[metric] <= b[metric]

\* C37 as stated: stage 2 runs only after the trials of stage 1 are over;
\* the shape it is given is the shape of a stage-1 record that is best on
\* the requested metric; and every stage-2 trial that was executed recorded
\* that shape and ran on a VM of that shape.
C37_TwoStagePipeline ==
    LET infra_results == SelectSeq(trino.results, LAMBDA r : r.mode = "infra")
    IN  /\ (trino.stage \in {"config", "done"} \/ trino.ran.config > 0)
            => trino.ran.infra = MaxTrinoTrials \div 2
        /\ trino.stage \in {"config", "done"}
            => \E i \in 1..Len(infra_results) :
                  /\ infra_results[i].infra_config = trino.best_infra[1]
                  /\ \A j \in 1..Len(infra_results) :
                        AtLeastAsGood(infra_results[i], infra_results[j], trino.metric)
        /\ (trino.last.stage = "config" /\ trino.last.reached # "cached")
            => /\ trino.last.infra = trino.best_infra
               /\ trino.last.ranOn = trino.best_infra

============================================================================
